---------------------------- MODULE Spec2Model ----------------------------
(***************************************************************************)
(* A model of the statement-import pipeline of finance-tracker:            *)
(*   - the CSV reader (src/src/readers/csv_reader.py),                     *)
(*   - the OFX reader (src/src/readers/ofx_reader.py),                     *)
(*   - the banking importer (src/src/transactions/banking.py) and          *)
(*     create_posting (src/src/transactions/common.py),                    *)
(*   - the Paypal adapter (src/src/importers/paypal/__init__.py) and the   *)
(*     legacy CaixaBank amount handling (src/importers/caixabank).         *)
(*                                                                         *)
(* Text is modelled as TLA+ strings where it is only compared, and as      *)
(* sequences of one-character strings where the code edits or parses it    *)
(* (amounts).  Python's None is the record None; a Decimal is the record   *)
(* [m |-> mantissa, e |-> digits after the point]; a date is the record    *)
(* [day |-> n], n counting days (2024-03-10 is day 10 of the month used).  *)
(*                                                                         *)
(* Library behaviour the code relies on (petl, beancount.core.number.D,    *)
(* decimal.Decimal) is modelled at the call that uses it.                  *)
(***************************************************************************)
EXTENDS Integers, Sequences, FiniteSets, TLC

VARIABLES
  \* ---- one import process: a Paypal importer and its CSV reader
  file,             \* the CSV file under import: its lines, each a sequence of cells
  target_account,   \* config.get("target_account")
  readerHasInit,    \* hasattr(self.reader, "initialize_reader")
  rdr,              \* CSVReader.rdr: the processed table, Unset before read_file
  ret,              \* the last call made on the importer/reader and what it gave
  alive,            \* FALSE once the interpreter has been told to exit
  \* ---- a function applied to an argument
  inp,              \* the argument
  fn,               \* the function applied ("" before)
  out,              \* its result
  \* ---- an OFX reader
  ofx,              \* OFXReader.ofx: the parsed file, a sequence of accounts
  ofx_account,      \* OFXReader.ofx_account
  ofxConfig,        \* the reader's config dictionary
  today,            \* datetime.date.today()
  ofxRet            \* the last call made on the OFX reader and what it gave

vars == <<file, target_account, readerHasInit, rdr, ret, alive,
          inp, fn, out, ofx, ofx_account, ofxConfig, today, ofxRet>>

importVars == <<file, target_account, readerHasInit, rdr, ret, alive>>
applyVars  == <<inp, fn, out>>
ofxVars    == <<ofx, ofx_account, ofxConfig, today, ofxRet>>

---------------------------------------------------------------------------
(* Python values *)

None == [none |-> TRUE]

Raised(exc) == [raised |-> exc]

IsRaised(v) == "raised" \in DOMAIN v

Date(n) == [day |-> n]

\* The exceptions a handler written "except Exception" catches.  SystemExit,
\* raised by sys.exit, derives from BaseException and is not among them.
PyExceptionSubclasses ==
  {"AttributeError", "KeyError", "ValueError", "TypeError", "IndexError"}

---------------------------------------------------------------------------
(* Text as sequences of characters *)

DigitChars == {"0", "1", "2", "3", "4", "5", "6", "7", "8", "9"}

DigitVal(c) ==
  CASE c = "0" -> 0 [] c = "1" -> 1 [] c = "2" -> 2 [] c = "3" -> 3
    [] c = "4" -> 4 [] c = "5" -> 5 [] c = "6" -> 6 [] c = "7" -> 7
    [] c = "8" -> 8 [] c = "9" -> 9

\* str.replace(a, b) for one-character a and b
Replace(s, a, b) == [i \in 1..Len(s) |-> IF s[i] = a THEN b ELSE s[i]]

\* re.sub(r"[...]", "", s): drop the characters of the set
DropChars(s, drop) ==
  LET keep(c) == c \notin drop IN SelectSeq(s, keep)

\* str.strip() of blanks
RECURSIVE LStrip(_)
LStrip(s) == IF s # <<>> /\ Head(s) = " " THEN LStrip(Tail(s)) ELSE s

RECURSIVE RStrip(_)
RStrip(s) ==
  IF s # <<>> /\ s[Len(s)] = " " THEN RStrip(SubSeq(s, 1, Len(s) - 1)) ELSE s

Strip(s) == LStrip(RStrip(s))

RECURSIVE Pow10(_)
Pow10(n) == IF n = 0 THEN 1 ELSE 10 * Pow10(n - 1)

\* the number a sequence of digits spells
RECURSIVE DigitsValue(_)
DigitsValue(ds) ==
  IF ds = <<>> THEN 0
  ELSE 10 * DigitsValue(SubSeq(ds, 1, Len(ds) - 1)) + DigitVal(ds[Len(ds)])

CountChar(s, c) == Cardinality({i \in 1..Len(s) : s[i] = c})

---------------------------------------------------------------------------
(* decimal.Decimal and beancount.core.number.D *)

Dec(m, e) == [m |-> m, e |-> e]

IsDec(v) == DOMAIN v = {"m", "e"}

\* Decimal.__eq__: equal values, whatever the number of trailing zeros
DecEq(a, b) == a.m * Pow10(b.e) = b.m * Pow10(a.e)

\* decimal.Decimal(str) on the characters the model writes amounts with:
\* an optional sign, digits, at most one point, at least one digit.
\* Anything else raises (decimal.InvalidOperation).
DecimalOfStr(s) ==
  LET signed == s # <<>> /\ s[1] \in {"-", "+"}
      body   == IF signed THEN Tail(s) ELSE s
      isDigit(c) == c \in DigitChars
      digits == SelectSeq(body, isDigit)
      point  == IF CountChar(body, ".") = 1
                THEN CHOOSE i \in 1..Len(body) : body[i] = "."
                ELSE Len(body) + 1
      valid  == /\ \A i \in 1..Len(body) : body[i] \in DigitChars \cup {"."}
                /\ CountChar(body, ".") <= 1
                /\ digits # <<>>
      mag    == DigitsValue(digits)
  IN IF ~valid THEN Raised("InvalidOperation")
     ELSE Dec(IF signed /\ s[1] = "-" THEN 0 - mag ELSE mag,
              IF point > Len(body) THEN 0 ELSE Len(body) - point)

\* A Python str, as its characters
Str(chars) == [s |-> chars]

IsStr(v) == DOMAIN v = {"s"}

\* beancount.core.number.D as create_posting and convert_columns call it:
\* None and "" give Decimal() = 0, a string is cleaned of "," and " " and
\* handed to Decimal, a Decimal is returned as it is; a failure is re-raised
\* as ValueError.
D(x) ==
  IF IsDec(x) THEN x
  ELSE IF x = None \/ x.s = <<>> THEN Dec(0, 0)
  ELSE LET r == DecimalOfStr(DropChars(x.s, {",", " "}))
       IN IF IsRaised(r) THEN Raised("ValueError") ELSE r

\* petl's convert(col, f) with its default failonerror=False: a value whose
\* conversion raises becomes None, and the table is yielded as if nothing
\* had happened.
PetlConverted(v) == IF IsRaised(v) THEN None ELSE v

\* CSVReader.convert_columns.remove_non_numeric:
\* re.sub(r"[^0-9\.-]", "", str(x).strip())
remove_non_numeric(x) ==
  LET keep(c) == c \in DigitChars \cup {".", "-"}
  IN Str(SelectSeq(Strip(x.s), keep))

\* CSVReader.convert_columns on one cell of a numeric column ("amount",
\* "balance", ...): convert(col, remove_non_numeric) then convert(col, D)
ConvertNumeric(x) == PetlConverted(D(remove_non_numeric(x)))

\* PaypalImporter.transformations, the "amount" and "balance" fields:
\* x["Net"].replace(",", ".")
PaypalSeparators(x) == Str(Replace(x.s, ",", "."))

\* The legacy CaixaBank importer's separator handling:
\* D(s.replace('.', '!').replace(',', '.').replace('!', ','))
CaixaLegacyAmount(x) ==
  D(Str(Replace(Replace(Replace(x.s, ".", "!"), ",", "."), "!", ",")))

---------------------------------------------------------------------------
(* Amounts written with a comma as the decimal separator *)

\* the digits amounts are written with
AmountDigits == {"0", "3", "5"}

\* the longest integer part, in digits
MaxIntDigits == 4

\* the longest fraction, in digits
MaxFracDigits == 2

DigitStrings(n) == UNION {[1..k -> AmountDigits] : k \in 1..n}

\* An amount as written in a file: sign, integer part, fraction, and
\* whether the integer part carries "." thousands separators.
WrittenAmounts ==
  [neg : BOOLEAN, ip : DigitStrings(MaxIntDigits),
   fp : DigitStrings(MaxFracDigits), thousands : BOOLEAN]

\* the integer part with a "." before every group of three digits
RECURSIVE Grouped(_)
Grouped(ip) ==
  IF Len(ip) <= 3 THEN ip
  ELSE Grouped(SubSeq(ip, 1, Len(ip) - 3)) \o <<".">>
         \o SubSeq(ip, Len(ip) - 2, Len(ip))

SignChars(a) == IF a.neg THEN <<"-">> ELSE <<>>

\* "1.234,56" or "1234,56"
CommaSpelling(a) ==
  Str(SignChars(a) \o (IF a.thousands THEN Grouped(a.ip) ELSE a.ip)
        \o <<",">> \o a.fp)

\* "1234.56"
DotSpelling(a) == Str(SignChars(a) \o a.ip \o <<".">> \o a.fp)

\* the value both spellings denote
ExactValue(a) ==
  LET mag == DigitsValue(a.ip \o a.fp)
  IN Dec(IF a.neg THEN 0 - mag ELSE mag, Len(a.fp))

InitApplyIdle == inp = None /\ fn = "" /\ out = None

InitAmount ==
  /\ inp \in WrittenAmounts
  /\ fn = ""
  /\ out = None

\* A Paypal row's Net cell through PaypalImporter.transformations and then
\* CSVReader.convert_columns
PaypalAmount ==
  /\ fn = ""
  /\ fn' = "paypal"
  /\ out' = ConvertNumeric(PaypalSeparators(CommaSpelling(inp)))
  /\ inp' = inp
  /\ UNCHANGED <<importVars, ofxVars>>

\* The same cell through CSVReader.convert_columns alone (an adapter whose
\* transformation callback leaves the separators alone)
ReaderAmount ==
  /\ fn = ""
  /\ fn' = "reader"
  /\ out' = ConvertNumeric(CommaSpelling(inp))
  /\ inp' = inp
  /\ UNCHANGED <<importVars, ofxVars>>

\* The dot-decimal spelling through the Paypal path
PaypalDotAmount ==
  /\ fn = ""
  /\ fn' = "paypal_dot"
  /\ out' = ConvertNumeric(PaypalSeparators(DotSpelling(inp)))
  /\ inp' = inp
  /\ UNCHANGED <<importVars, ofxVars>>

\* The legacy CaixaBank importer's extract, the amount of a row
CaixaLegacy ==
  /\ fn = ""
  /\ fn' = "caixabank_legacy"
  /\ out' = CaixaLegacyAmount(CommaSpelling(inp))
  /\ inp' = inp
  /\ UNCHANGED <<importVars, ofxVars>>

NextAmount ==
  \/ PaypalAmount
  \/ ReaderAmount
  \/ PaypalDotAmount
  \/ CaixaLegacy

---------------------------------------------------------------------------
(* petl tables: a sequence of rows, the first of which is the header *)

Ok(v) == [ok |-> v]

Min(S) == CHOOSE x \in S : \A y \in S : x <= y

Max(S) == CHOOSE x \in S : \A y \in S : x >= y

\* table.skip(n): the first n rows dropped, the next one becomes the header
PetlSkip(t, n) == SubSeq(t, n + 1, Len(t))

\* table.head(n): the header and the first n data rows
PetlHead(t, n) == SubSeq(t, 1, IF n + 1 < Len(t) THEN n + 1 ELSE Len(t))

\* all(i in list(r) for i in col_labels)
RowHasLabels(r, col_labels) ==
  \A k \in 1..Len(col_labels) : \E i \in 1..Len(r) : r[i] = col_labels[k]

\* not r or all(i == "" for i in r)
IsBlankRow(r) == r = <<>> \/ \A i \in 1..Len(r) : r[i] = ""

\* A mutant of skip_until_main_table: the first matching line wins.
skip_until_main_table_first(t, col_labels) ==
  IF col_labels = <<>> THEN Ok(t)
  ELSE LET hits == {n \in 1..Len(t) : RowHasLabels(t[n], col_labels)}
       IN IF hits = {} THEN Raised("SystemExit")
          ELSE Ok(PetlSkip(t, Min(hits) - 1))

\* CSVReader.skip_until_main_table.  Rows are numbered from 1 here and from
\* 0 by enumerate, so skip = Max(hits) - 1.  sys.exit(1) raises SystemExit.
skip_until_main_table(t, col_labels) ==
  IF col_labels = <<>> THEN Ok(t)
  ELSE LET hits == {n \in 1..Len(t) : RowHasLabels(t[n], col_labels)}
       IN IF hits = {} THEN Raised("SystemExit")
          ELSE Ok(PetlSkip(t, Max(hits) - 1))

\* A mutant of TableUpToBlank: the blank row is kept (nrows = n).
TableUpToBlank_off_by_one(m) ==
  LET blanks == {n \in 1..Len(m) : IsBlankRow(m[n])}
      nrows == IF blanks = {} THEN Len(m) ELSE Min(blanks) - 1
  IN IF nrows < 0 THEN Raised("ValueError") ELSE Ok(PetlHead(m, nrows))

\* CSVReader.extract_table_with_header after skip_until_main_table.
\* len(rdr) counts the header; the blank row found at enumerate index
\* n = Min(blanks) - 1 gives nrows = n - 1.  head() of a negative count
\* raises when iterated.
TableUpToBlank(m) ==
  LET blanks == {n \in 1..Len(m) : IsBlankRow(m[n])}
      nrows == IF blanks = {} THEN Len(m) ELSE (Min(blanks) - 1) - 1
  IN IF nrows < 0 THEN Raised("ValueError") ELSE Ok(PetlHead(m, nrows))

\* extract_table_with_header once skip_until_main_table has returned or
\* raised
HeadToBlank(r) == IF IsRaised(r) THEN r ELSE TableUpToBlank(r.ok)

\* CSVReader.extract_table_with_header
extract_table_with_header(t, col_labels) ==
  HeadToBlank(skip_until_main_table(t, col_labels))

---------------------------------------------------------------------------
(* Locating a table in a file: the operations applied to small tables *)

\* the expected column labels of the tables located here
LocLabels == <<"Date", "Net">>

\* the lines a file is made of
LocLines ==
  { <<"Date", "Net">>,            \* the header
    <<"Net", "x", "Date">>,       \* the header, reordered, with an extra cell
    <<"Date", "x">>,              \* one label missing
    <<"a", "b">>, <<"c", "d">>,   \* data
    <<"", "x">>,                  \* one cell empty
    <<"", "">>,                   \* all cells empty
    <<>> }                        \* no cell

\* the longest file, in lines
MaxLines == 4

LocTables == UNION {[1..k -> LocLines] : k \in 1..MaxLines}

InitTable ==
  /\ inp \in LocTables
  /\ fn = ""
  /\ out = None

SkipUntilMainTable ==
  /\ fn = ""
  /\ fn' = "skip_until_main_table"
  /\ out' = skip_until_main_table(inp, LocLabels)
  /\ inp' = inp
  /\ UNCHANGED <<importVars, ofxVars>>

ExtractTableWithHeader ==
  /\ fn = ""
  /\ fn' = "extract_table_with_header"
  /\ out' = extract_table_with_header(inp, LocLabels)
  /\ inp' = inp
  /\ UNCHANGED <<importVars, ofxVars>>

NextTable ==
  \/ SkipUntilMainTable
  \/ ExtractTableWithHeader

---------------------------------------------------------------------------
(* The cells of the Paypal files imported here *)

Text(s) == [text |-> s]

\* The characters of the cells that hold amounts
CellChars(c) ==
  CASE c = "-3,50"    -> <<"-", "3", ",", "5", "0">>
    [] c = "-3.50"    -> <<"-", "3", ".", "5", "0">>
    [] c = "-3"       -> <<"-", "3">>
    [] c = "n/a"      -> <<"n", "/", "a">>
    [] c = "100,00"   -> <<"1", "0", "0", ",", "0", "0">>
    [] c = "96,50"    -> <<"9", "6", ",", "5", "0">>
    [] c = "1.096,50" -> <<"1", ".", "0", "9", "6", ",", "5", "0">>
    [] c = ""         -> <<>>

\* datetime.datetime.strptime(d.strip(), "%d/%m/%Y") on the date cells of
\* the files imported here, the day counted within March 2024
strptime(d) ==
  CASE d = "01/03/2024" -> Date(1)
    [] d = "10/03/2024" -> Date(10)
    [] OTHER -> Raised("ValueError")

\* the Date, Description and Net cells a data row is made of
DateCells == {"01/03/2024", "10/03/2024", "2024-03-10"}

DescriptionCells ==
  {"Website Payment", "General Authorization - Pending", "Mobile Payment"}

NetCells == {"-3,50", "n/a"}

\* the running balance Paypal reports on a row
BalanceCell(d) ==
  CASE d = "01/03/2024" -> "100,00"
    [] d = "10/03/2024" -> "96,50"
    [] OTHER -> "1.096,50"

\* The label line of a Paypal export, cut down to the columns the pipeline
\* reads (PaypalImporter.__init__, column_labels_line)
PaypalLabels ==
  <<"Date", "Description", "Currency", "Net", "Balance", "Name">>

DataLine(d, t, n) == <<d, t, "EUR", n, BalanceCell(d), "Shop">>

DataLines ==
  {DataLine(d, t, n) : d \in DateCells, t \in DescriptionCells, n \in NetCells}

\* the largest number of data rows of a file
MaxRows == 2

RowSeqs == UNION {[1..k -> DataLines] : k \in 0..MaxRows}

JunkLine == <<"Paypal activity report">>

\* The files: the table alone; the table after a preamble and before a
\* blank line and a trailer; and a file whose label line is missing.
Files ==
  {<<PaypalLabels>> \o rows : rows \in RowSeqs}
    \cup {<<JunkLine, PaypalLabels>> \o rows \o <<<<>>, JunkLine>> :
            rows \in RowSeqs}
    \cup {<<JunkLine>> \o rows : rows \in RowSeqs}

---------------------------------------------------------------------------
(* CSVReader with the options PaypalImporter.__init__ gives it *)

Unset == [unset |-> TRUE]

\* self.rdr once read_file has set it: the typed data rows
Table(rows) == [rows |-> rows]

\* CSVReaderOptions.skip_transaction_types of the Paypal importer
PaypalSkipTypes ==
  {"General Authorization - Pending", "General Authorization - Completed"}

\* CSVReaderOptions.transaction_type_map of the Paypal importer
PaypalTypeMap(raw) ==
  CASE raw = "Website Payment" -> "payment"
    [] raw = "PreApproved Payment Bill User Payment" -> "payment"
    [] raw = "Express Checkout Payment" -> "payment"
    [] OTHER -> raw

\* the value of a named column in a row of a table with the given header
Field(header, row, name) ==
  row[CHOOSE i \in 1..Len(header) : header[i] = name]

\* rdr.skipcomments("# "): rows with no cell, and rows whose first cell
\* starts with the marker, are dropped.  No cell of the files imported here
\* starts with "# ".
PetlSkipComments(t) ==
  LET keep(r) == Len(r) > 0 IN SelectSeq(t, keep)

\* CSVReader.convert_columns, the date columns: convert(col, convert_date)
ConvertDate(d) == PetlConverted(strptime(d))

\* One data row through PaypalImporter.transformations (amount, balance,
\* payee, memo added), rename(header_map) (Date -> date, Currency ->
\* currency, Description -> type) and CSVReader.convert_columns (type
\* remapped, amount and balance to Decimal, date to datetime): the
\* namedtuple get_transactions yields.
TypedRow(header, row) ==
  [date     |-> ConvertDate(Field(header, row, "Date")),
   type     |-> PaypalTypeMap(Field(header, row, "Description")),
   currency |-> Field(header, row, "Currency"),
   amount   |-> ConvertNumeric(
                  PaypalSeparators(Str(CellChars(Field(header, row, "Net"))))),
   balance  |-> ConvertNumeric(
                  PaypalSeparators(Str(CellChars(Field(header, row, "Balance"))))),
   payee    |-> Field(header, row, "Description") \o ": "
                  \o Field(header, row, "Name"),
   memo     |-> ""]

\* CSVReader.read_file from rdr.skipcomments on: the typed data rows of the
\* located table
TypedTable(located) ==
  LET t == PetlSkipComments(located)
  IN Ok([n \in 1..(Len(t) - 1) |-> TypedRow(t[1], t[n + 1])])

\* read_file once extract_table_with_header has returned or raised
Processed(r) == IF IsRaised(r) THEN r ELSE TypedTable(r.ok)

\* CSVReader.read_file: the value it leaves in self.rdr, or the exception it
\* raises.  read_raw gives the file's lines; skip_head_rows, skip_tail_rows
\* and skip_data_rows are not set, so rdr.skip(0), rdr.head(len(rdr) - 1)
\* and rdr.rowslice(0, None) keep every row; prepare_raw_file,
\* fix_column_names (no "-", "/" or " " in a processed name) and
\* prepare_processed_table change nothing.
read_file(f) ==
  Processed(extract_table_with_header(PetlHead(f, Len(f) - 1), PaypalLabels))

\* A mutant of skip_transaction: no row is skipped.
skip_transaction_never(row, skip_types) == FALSE

\* CSVReader.skip_transaction:
\* getattr(row, "type", "NO_TYPE") in self.options.skip_transaction_types
skip_transaction(row, skip_types) ==
  (IF "type" \in DOMAIN row THEN row.type ELSE "NO_TYPE") \in skip_types

\* CSVReader.get_transactions: the rows of self.rdr that are not skipped
get_transactions(rows, skip_types) ==
  LET keep(ot) == ~skip_transaction(ot, skip_types) IN SelectSeq(rows, keep)

\* ot.tradeDate if hasattr(ot, "tradeDate") else ot.date
RowDate(ot) == IF "tradeDate" \in DOMAIN ot THEN ot.tradeDate ELSE ot.date

\* CSVReader.get_max_transaction_date.  max() of no row raises ValueError,
\* max() over a None and a datetime raises TypeError, None.date() raises
\* AttributeError: each is caught and gives None.
get_max_transaction_date(rows, skip_types) ==
  LET accepted == get_transactions(rows, skip_types)
      dates == {RowDate(accepted[i]) : i \in 1..Len(accepted)}
  IN IF dates = {} \/ None \in dates THEN None
     ELSE Date(Max({d.day : d \in dates}))

\* CSVReader.get_balance_assertion_date: + datetime.timedelta(days=1)
get_balance_assertion_date(rows, skip_types) ==
  LET d == get_max_transaction_date(rows, skip_types)
  IN IF d = None THEN None ELSE Date(d.day + 1)

---------------------------------------------------------------------------
(* create_posting and BankingImporter *)

\* config["main_account"] of the Paypal importer (config.py)
MainAccount == "Assets:Online:Paypal:Checking"

\* Reader.__init__: config.get("currency", "CURRENCY_NOT_CONFIGURED")
ReaderCurrency == "CURRENCY_NOT_CONFIGURED"

\* the importer's config dictionary
Config(target) ==
  IF target = None THEN [main_account |-> MainAccount]
  ELSE [main_account |-> MainAccount, target_account |-> target.text]

\* beancount's Amount(number, currency)
Amount(number, currency) == [number |-> number, currency |-> currency]

\* common.create_posting once D has been applied to number and
\* amount_number: cost and price are set only on is_cost and is_price.
Posting(account, n, currency, a, amount_currency, is_price, is_cost) ==
  IF IsRaised(n) THEN n
  ELSE IF IsRaised(a) THEN a
  ELSE [account |-> account,
        units   |-> Amount(n, currency),
        cost    |-> IF is_cost THEN Amount(a, amount_currency) ELSE None,
        price   |-> IF is_price THEN Amount(n, currency) ELSE None]

\* common.create_posting: the Posting it appends to the entry, or the
\* ValueError D raises.  units and amount are built through D whatever the
\* arguments are.
create_posting(account, number, currency, amount_number, amount_currency, is_price, is_cost) ==
  Posting(account, D(number), currency, D(amount_number), amount_currency,
          is_price, is_cost)

\* A mutant of Metadata: filing_account is always the main account.
Metadata_main_only(config, lineno) ==
  IF ("emit_filing_account_metadata" \in DOMAIN config)
       /\ config.emit_filing_account_metadata = FALSE
  THEN [lineno |-> lineno]
  ELSE [lineno |-> lineno, filing_account |-> config.main_account]

\* TransactionBuilder.build_metadata merged into new_metadata(file, lineno)
Metadata(config, lineno) ==
  IF ("emit_filing_account_metadata" \in DOMAIN config)
       /\ config.emit_filing_account_metadata = FALSE
  THEN [lineno |-> lineno]
  ELSE [lineno |-> lineno,
        filing_account |-> IF "filing_account" \in DOMAIN config
                           THEN config.filing_account
                           ELSE config.main_account]

\* BankingImporter.get_currency
get_currency(ot) ==
  IF "currency" \in DOMAIN ot THEN ot.currency ELSE ReaderCurrency

\* BankingImporter.get_target_account: self.config.get("target_account")
get_target_account(config) ==
  IF "target_account" \in DOMAIN config THEN Text(config.target_account)
  ELSE None

\* self.get_payee and self.get_narration: BankingImporter.__init__ sets
\* both to lambda ot: ot.payee; an importer may replace them by the
\* accessor of another field of the row.
DefaultAccessor == "payee"

Accessed(accessor, ot) == IF accessor = "payee" THEN ot.payee ELSE ot.memo

\* A mutant of TransactionNames: each field comes from the accessor of its
\* own name.
TransactionNames_by_name(get_payee, get_narration, ot) ==
  [payee     |-> Accessed(get_payee, ot),
   narration |-> Accessed(get_narration, ot)]

\* The payee and narration arguments of Transaction(...) in
\* BankingImporter.extract: payee=self.get_narration(ot),
\* narration=self.get_payee(ot)
TransactionNames(get_payee, get_narration, ot) ==
  [payee     |-> Accessed(get_narration, ot),
   narration |-> Accessed(get_payee, ot)]

\* The statements of the loop of BankingImporter.extract after the main
\* posting: the target posting when config gives a target account, and the
\* entry appended to new_entries.
EntryNamed(config, ot, lineno, main, target_acct, names) ==
  IF IsRaised(main) THEN main
  ELSE [kind      |-> "Transaction",
        meta      |-> Metadata(config, lineno),
        date      |-> ot.date,
        payee     |-> names.payee,
        narration |-> names.narration,
        postings  |->
          IF target_acct # None /\ target_acct.text # ""
          THEN <<main,
                 create_posting(target_acct.text, None, None, None, None,
                                FALSE, FALSE)>>
          ELSE <<main>>]

\* The body of the loop of BankingImporter.extract for one row: the entry
\* appended to new_entries, or the exception raised.  ot.date.date() raises
\* AttributeError on a date that is None.  The Paypal rows have no
\* foreign_amount and no foreign_currency.
BuildEntryBy(config, ot, lineno, get_payee, get_narration) ==
  IF ot.date = None THEN Raised("AttributeError")
  ELSE EntryNamed(
         config, ot, lineno,
         create_posting(
           config.main_account, ot.amount, Text(get_currency(ot)),
           IF "foreign_amount" \in DOMAIN ot THEN ot.foreign_amount ELSE None,
           IF "foreign_currency" \in DOMAIN ot
           THEN Text(ot.foreign_currency) ELSE None,
           FALSE, FALSE),
         get_target_account(config),
         TransactionNames(get_payee, get_narration, ot))

\* the same, with the accessors BankingImporter.__init__ sets
BuildEntry(config, ot, lineno) ==
  BuildEntryBy(config, ot, lineno, DefaultAccessor, DefaultAccessor)

\* The loop of BankingImporter.extract over reader.get_transactions()
\* (TransactionBuilder.skip_transaction is False for every row): the
\* entries, or the first exception raised.
RECURSIVE BuildEntries(_, _, _)
EntriesAfter(config, rows, done, e) ==
  IF IsRaised(e) THEN e
  ELSE BuildEntries(config, Tail(rows), Append(done, e))

BuildEntries(config, rows, done) ==
  IF rows = <<>> THEN Ok(done)
  ELSE EntriesAfter(config, rows, done,
                    BuildEntry(config, Head(rows), Len(done)))

\* PaypalImporter.get_balance_statement: one statement when the reader has
\* a balance assertion date, with the balance and currency of the first row
\* of the table
BalanceStatementOn(rows, date) ==
  IF date = None THEN <<>>
  ELSE <<[date |-> date, amount |-> rows[1].balance,
          currency |-> rows[1].currency]>>

get_balance_statement(rows) ==
  BalanceStatementOn(rows, get_balance_assertion_date(rows, PaypalSkipTypes))

\* BankingImporter.extract_balance: a Balance entry for each statement
BalanceEntries(config, bals, counter) ==
  [i \in 1..Len(bals) |->
     [kind    |-> "Balance",
      meta    |-> Metadata(config, counter + i - 1),
      date    |-> bals[i].date,
      account |-> config.main_account,
      amount  |-> Amount(bals[i].amount, Text(get_currency(bals[i])))]]

extract_balance(config, rows, counter) ==
  BalanceEntries(config, get_balance_statement(rows), counter)

\* BankingImporter.extract, its last statements:
\* new_entries += self.extract_balance(file, counter); return new_entries
WithBalances(config, rows, txns) ==
  IF IsRaised(txns) THEN txns
  ELSE Ok(txns.ok \o extract_balance(config, rows, Len(txns.ok)))

\* BankingImporter.extract once self.reader.read_file has returned or
\* raised: the entries returned, or the exception raised
ExtractEntries(config, table) ==
  IF IsRaised(table) THEN table
  ELSE WithBalances(
         config, table.ok,
         BuildEntries(config, get_transactions(table.ok, PaypalSkipTypes),
                      <<>>))

---------------------------------------------------------------------------
(* One import process: calls made on a Paypal importer and its reader *)

Called(call, exc, value) == [call |-> call, exc |-> exc, value |-> value]

NoCall == Called("", "", <<>>)

TargetAccounts == {None, Text("Expenses:Other")}

InitImportIdle ==
  /\ file = <<>>
  /\ target_account = None
  /\ readerHasInit = FALSE
  /\ rdr = Unset
  /\ ret = NoCall
  /\ alive = TRUE

\* No class under src/src/readers defines initialize_reader, so
\* readerHasInit is FALSE for the readers as shipped; TRUE is a reader that
\* supplies the hook BankingImporter.initialize calls.
InitImport ==
  /\ file \in Files
  /\ target_account \in TargetAccounts
  /\ readerHasInit \in BOOLEAN
  /\ rdr = Unset
  /\ ret = NoCall
  /\ alive = TRUE

\* An exception that leaves a call reaches the caller; SystemExit is the
\* request to end the interpreter, which no "except Exception" intercepts.
StillAlive(exc) == exc \in PyExceptionSubclasses

\* read_file: self.rdr is assigned when nothing was raised
ReadFileDone(r) ==
  IF IsRaised(r)
  THEN /\ ret' = Called("read_file", r.raised, <<>>)
       /\ alive' = StillAlive(r.raised)
       /\ rdr' = rdr
  ELSE /\ ret' = Called("read_file", "", <<>>)
       /\ alive' = alive
       /\ rdr' = Table(r.ok)

\* reader.read_file(file)
ReadFile ==
  /\ alive
  /\ ReadFileDone(read_file(file))
  /\ UNCHANGED <<file, target_account, readerHasInit, applyVars, ofxVars>>

\* list(reader.get_transactions()); self.rdr does not exist before the
\* first read_file
GetTransactions ==
  /\ alive
  /\ ret' = IF rdr = Unset THEN Called("get_transactions", "AttributeError", <<>>)
            ELSE Called("get_transactions", "",
                        get_transactions(rdr.rows, PaypalSkipTypes))
  /\ UNCHANGED <<file, target_account, readerHasInit, rdr, alive, applyVars, ofxVars>>

\* reader.get_balance_assertion_date(); before the first read_file the
\* AttributeError is caught in get_max_transaction_date and None returned
GetBalanceAssertionDate ==
  /\ alive
  /\ ret' = Called("get_balance_assertion_date", "",
                   IF rdr = Unset THEN None
                   ELSE get_balance_assertion_date(rdr.rows, PaypalSkipTypes))
  /\ UNCHANGED <<file, target_account, readerHasInit, rdr, alive, applyVars, ofxVars>>

\* list(importer.get_balance_statement()); before the first read_file the
\* reader gives no balance assertion date and nothing is yielded
GetBalanceStatement ==
  /\ alive
  /\ ret' = Called("get_balance_statement", "",
                   IF rdr = Unset THEN <<>>
                   ELSE get_balance_statement(rdr.rows))
  /\ UNCHANGED <<file, target_account, readerHasInit, rdr, alive, applyVars, ofxVars>>

\* What a call that returned or raised leaves in ret and alive
Returns(call, r) ==
  IF IsRaised(r)
  THEN /\ ret' = Called(call, r.raised, <<>>)
       /\ alive' = StillAlive(r.raised)
  ELSE /\ ret' = Called(call, "", r.ok)
       /\ alive' = alive

\* extract from self.reader.read_file on: the reader keeps the table read
ExtractFrom(config, table) ==
  /\ rdr' = IF IsRaised(table) THEN rdr ELSE Table(table.ok)
  /\ Returns("extract", ExtractEntries(config, table))

\* importer.extract(file).  self.initialize(file) calls
\* self.reader.initialize_reader(file), an AttributeError on a reader
\* without that method; then read_file, the loop and extract_balance.
Extract ==
  /\ alive
  /\ IF ~readerHasInit
     THEN /\ ret' = Called("extract", "AttributeError", <<>>)
          /\ UNCHANGED <<rdr, alive>>
     ELSE ExtractFrom(Config(target_account), read_file(file))
  /\ UNCHANGED <<file, target_account, readerHasInit, applyVars, ofxVars>>

---------------------------------------------------------------------------
(* BankingImporter.extract on the rows and balance statements of any      *)
(* reader: rows with and without the optional fields                      *)

\* the largest number of rows a reader yields
MaxEntryRows == 2

\* the largest number of balance statements get_balance_statement yields
MaxStatements == 2

\* The namedtuples a reader yields.  amount is a Decimal, or None where
\* the cell's conversion failed; currency and the foreign pair are columns
\* a source may not have.
PlainRows ==
  [date : {Date(1), Date(2)}, amount : {Dec(-350, 2), None}, payee : {"Shop"}]

WithCurrency(r) ==
  [date |-> r.date, amount |-> r.amount, payee |-> r.payee,
   currency |-> "EUR"]

WithForeign(r) ==
  [date |-> r.date, amount |-> r.amount, payee |-> r.payee,
   currency |-> "EUR", foreign_amount |-> Dec(400, 2),
   foreign_currency |-> "USD"]

ReaderRows ==
  PlainRows \cup {WithCurrency(r) : r \in PlainRows}
    \cup {WithForeign(r) : r \in PlainRows}

\* the BalanceStatement tuples of a source, with and without a currency
BalanceStatements ==
  {[date |-> Date(3), amount |-> Dec(100, 0)],
   [date |-> Date(3), amount |-> Dec(100, 0), currency |-> "EUR"]}

\* the importer's config: filing_account and emit_filing_account_metadata
\* are optional
EntryConfigs ==
  {[main_account |-> MainAccount],
   [main_account |-> MainAccount, filing_account |-> "Assets:Filing"],
   [main_account |-> MainAccount, emit_filing_account_metadata |-> TRUE],
   [main_account |-> MainAccount, emit_filing_account_metadata |-> FALSE],
   [main_account |-> MainAccount, filing_account |-> "Assets:Filing",
    emit_filing_account_metadata |-> TRUE],
   [main_account |-> MainAccount, filing_account |-> "Assets:Filing",
    emit_filing_account_metadata |-> FALSE]}

InitEntries ==
  /\ inp \in [config : EntryConfigs,
              rows : UNION {[1..k -> ReaderRows] : k \in 0..MaxEntryRows},
              bals : UNION {[1..k -> BalanceStatements] :
                              k \in 0..MaxStatements}]
  /\ fn = ""
  /\ out = None

\* A mutant of ThenBalances: the balance entries come first.
ThenBalances_first(config, txns, bals) ==
  IF IsRaised(txns) THEN txns
  ELSE Ok(BalanceEntries(config, bals, Len(txns.ok)) \o txns.ok)

\* BankingImporter.extract, its last statements, on the statements
\* get_balance_statement yields:
\* new_entries += self.extract_balance(file, counter); return new_entries
ThenBalances(config, txns, bals) ==
  IF IsRaised(txns) THEN txns
  ELSE Ok(txns.ok \o BalanceEntries(config, bals, Len(txns.ok)))

\* importer.extract(file) from the loop over reader.get_transactions() on
ExtractRows ==
  /\ fn = ""
  /\ fn' = "extract"
  /\ out' = ThenBalances(inp.config,
                         BuildEntries(inp.config, inp.rows, <<>>), inp.bals)
  /\ inp' = inp
  /\ UNCHANGED <<importVars, ofxVars>>

\* importer.extract_balance(file, counter) on a fresh counter
ExtractBalance ==
  /\ fn = ""
  /\ fn' = "extract_balance"
  /\ out' = Ok(BalanceEntries(inp.config, inp.bals, 0))
  /\ inp' = inp
  /\ UNCHANGED <<importVars, ofxVars>>

NextEntries ==
  \/ ExtractRows
  \/ ExtractBalance

---------------------------------------------------------------------------
(* A comma-delimited source with the columns Date, Description, Amount,   *)
(* Currency, from the text of its lines to the entries                    *)

\* csv_delimiter, by default
CsvDelimiter == ","

CsvQuote == "\""

\* csv.reader on one line, given as its delimiters, its quotes and the runs
\* of characters between them: a delimiter inside quotes belongs to the
\* cell, outside it ends the cell.
RECURSIVE CsvCells(_, _, _, _)
CsvCells(tokens, cells, cell, quoted) ==
  IF tokens = <<>> THEN Append(cells, cell)
  ELSE IF Head(tokens) = CsvQuote
  THEN CsvCells(Tail(tokens), cells, cell, ~quoted)
  ELSE IF Head(tokens) = CsvDelimiter /\ ~quoted
  THEN CsvCells(Tail(tokens), Append(cells, cell), "", FALSE)
  ELSE CsvCells(Tail(tokens), cells, cell \o Head(tokens), quoted)

\* an empty line is a row without cells
CsvRow(line) == IF line = <<>> THEN <<>> ELSE CsvCells(line, <<>>, "", FALSE)

\* CSVReader.read_raw: etl.fromcsv(file, delimiter=",")
read_raw(lines) == [i \in 1..Len(lines) |-> CsvRow(lines[i])]

\* options.column_labels_line, split at the delimiter
SourceLabels == <<"Date", "Description", "Amount", "Currency">>

SourceLabelsLine ==
  <<"Date", ",", "Description", ",", "Amount", ",", "Currency">>

\* the ways the amount of the data line is written
AmountSpellings ==
  {<<"-3", ",", "50">>, <<CsvQuote, "-3", ",", "50", CsvQuote>>,
   <<"-3.50">>, <<CsvQuote, "-3.50", CsvQuote>>}

SourceDataLine(d, p, a, c) == <<d, ",", p, ",">> \o a \o <<",", c>>

\* what follows the data line: nothing, or a blank line and a line of junk
SourceTrailers == {<<>>, <<<<>>, <<"junk">>>>}

\* The files of the source and the reader they are read with
\* (hasInit: the reader supplies initialize_reader)
SourceInputs ==
  [date : {"01/03/2024", "10/03/2024"}, payee : {"Coffee Shop", "Bakery"},
   amount : AmountSpellings, currency : {"EUR", "USD"},
   trailer : SourceTrailers, hasInit : BOOLEAN]

SourceLines(i) ==
  <<SourceLabelsLine, SourceDataLine(i.date, i.payee, i.amount, i.currency)>>
    \o i.trailer

\* One data row through rename(header_map) (Date -> date, Description ->
\* payee, Amount -> amount, Currency -> currency) and convert_columns: the
\* namedtuple get_transactions yields.  petl's namedtuples cuts a row with
\* more cells than the header has names.
SourceRow(header, row) ==
  [date     |-> ConvertDate(Field(header, row, "Date")),
   payee    |-> Field(header, row, "Description"),
   amount   |-> ConvertNumeric(Str(CellChars(Field(header, row, "Amount")))),
   currency |-> Field(header, row, "Currency")]

SourceTable(located) ==
  Ok([n \in 1..(Len(located) - 1) |-> SourceRow(located[1], located[n + 1])])

SourceProcessed(r) == IF IsRaised(r) THEN r ELSE SourceTable(r.ok)

\* CSVReader.read_file on the rows read_raw gives
SourceReadFile(rows) ==
  SourceProcessed(
    extract_table_with_header(PetlHead(rows, Len(rows) - 1), SourceLabels))

\* BankingImporter.extract from the loop on, for a source without balance
\* statements and without skip list
SourceEntries(table) ==
  IF IsRaised(table) THEN table
  ELSE ThenBalances([main_account |-> MainAccount],
                    BuildEntries([main_account |-> MainAccount],
                                 get_transactions(table.ok, {}), <<>>),
                    <<>>)

InitSource ==
  /\ inp \in SourceInputs
  /\ fn = ""
  /\ out = None

\* reader.read_raw(file)
SourceReadRaw ==
  /\ fn = ""
  /\ fn' = "read_raw"
  /\ out' = Ok(read_raw(SourceLines(inp)))
  /\ inp' = inp
  /\ UNCHANGED <<importVars, ofxVars>>

\* reader.read_file(file), then self.rdr
SourceRead ==
  /\ fn = ""
  /\ fn' = "read_file"
  /\ out' = SourceReadFile(read_raw(SourceLines(inp)))
  /\ inp' = inp
  /\ UNCHANGED <<importVars, ofxVars>>

\* importer.extract(file)
SourceExtract ==
  /\ fn = ""
  /\ fn' = "extract"
  /\ out' = IF ~inp.hasInit THEN Raised("AttributeError")
            ELSE SourceEntries(SourceReadFile(read_raw(SourceLines(inp))))
  /\ inp' = inp
  /\ UNCHANGED <<importVars, ofxVars>>

NextSource ==
  \/ SourceReadRaw
  \/ SourceRead
  \/ SourceExtract

---------------------------------------------------------------------------
(* BankingImporter.extract with the importer's accessors replaced *)

\* rows with a payee and a memo
NamedRows ==
  [date : {Date(1), Date(2)}, amount : {Dec(-350, 2)},
   payee : {"Coffee Shop", "Bakery", "Rent"},
   memo : {"card", "transfer", "Bakery"}]

Accessors == {"payee", "memo"}

InitNames ==
  /\ inp \in [row : NamedRows, get_payee : Accessors,
              get_narration : Accessors]
  /\ fn = ""
  /\ out = None

\* importer.extract(file) on a one-row table: the entry of the row
ExtractNamed ==
  /\ fn = ""
  /\ fn' = "extract"
  /\ out' = BuildEntryBy([main_account |-> MainAccount], inp.row, 0,
                         inp.get_payee, inp.get_narration)
  /\ inp' = inp
  /\ UNCHANGED <<importVars, ofxVars>>

NextNames == ExtractNamed

---------------------------------------------------------------------------
(* TransactionBuilder.remove_empty_subaccounts *)

\* the longest account name, in characters
MaxAccountLen == 4

AccountChars == {"a", "b", ":"}

AccountNames == UNION {[1..k -> AccountChars] : k \in 0..MaxAccountLen}

\* str.split(sep): the runs between the separators, empty ones included
RECURSIVE StrSplit(_, _, _, _)
StrSplit(s, sep, segs, seg) ==
  IF s = <<>> THEN Append(segs, seg)
  ELSE IF Head(s) = sep THEN StrSplit(Tail(s), sep, Append(segs, seg), <<>>)
  ELSE StrSplit(Tail(s), sep, segs, Append(seg, Head(s)))

\* sep.join(segs)
RECURSIVE StrJoin(_, _)
StrJoin(segs, sep) ==
  IF segs = <<>> THEN <<>>
  ELSE IF Len(segs) = 1 THEN segs[1]
  ELSE segs[1] \o <<sep>> \o StrJoin(Tail(segs), sep)

NonEmpty(segs) == LET filled(x) == x # <<>> IN SelectSeq(segs, filled)

\* A mutant of remove_empty_subaccounts: every segment is kept.
remove_empty_subaccounts_keep_all(acct) ==
  StrJoin(StrSplit(acct, ":", <<>>, <<>>), ":")

\* ":".join(x for x in acct.split(":") if x)
remove_empty_subaccounts(acct) ==
  StrJoin(NonEmpty(StrSplit(acct, ":", <<>>, <<>>)), ":")

InitAccounts ==
  /\ inp \in AccountNames
  /\ fn = ""
  /\ out = None

\* TransactionBuilder.remove_empty_subaccounts(acct)
RemoveEmptySubaccounts ==
  /\ fn = ""
  /\ fn' = "remove_empty_subaccounts"
  /\ out' = Str(remove_empty_subaccounts(inp))
  /\ inp' = inp
  /\ UNCHANGED <<importVars, ofxVars>>

\* the same on the account it returned:
\* remove_empty_subaccounts(remove_empty_subaccounts(acct))
RemoveEmptySubaccountsAgain ==
  /\ fn = "remove_empty_subaccounts"
  /\ fn' = "remove_empty_subaccounts twice"
  /\ out' = Str(remove_empty_subaccounts(out.s))
  /\ inp' = inp
  /\ UNCHANGED <<importVars, ofxVars>>

NextAccounts ==
  \/ RemoveEmptySubaccounts
  \/ RemoveEmptySubaccountsAgain

---------------------------------------------------------------------------
(* util.strings.remove_accents *)

\* the longest text, in characters
MaxTextLen == 3

\* The characters of the texts: letters are named, an accented letter by
\* its base letter and its accent.
TextChars ==
  {"A", "a", "A_grave", "a_ring", "E_acute", "i_circ", "O_tilde", "u_uml",
   "N_tilde", "z"}

Texts == UNION {[1..k -> TextChars] : k \in 0..MaxTextLen}

\* str.lower() on one character
LowerChar(c) ==
  CASE c = "A" -> "a"
    [] c = "A_grave" -> "a_grave"
    [] c = "E_acute" -> "e_acute"
    [] c = "O_tilde" -> "o_tilde"
    [] c = "N_tilde" -> "n_tilde"
    [] OTHER -> c

\* the character classes of the five re.sub calls
AccentedA == {"a_grave", "a_acute", "a_circ", "a_tilde", "a_uml", "a_ring"}
AccentedE == {"e_grave", "e_acute", "e_circ", "e_uml"}
AccentedI == {"i_grave", "i_acute", "i_circ", "i_uml"}
AccentedO == {"o_grave", "o_acute", "o_circ", "o_tilde", "o_uml"}
AccentedU == {"u_grave", "u_acute", "u_circ", "u_uml"}

\* re.sub(r"[...]", to, s) for a class of single characters
ReSub(class, to, s) == [i \in 1..Len(s) |-> IF s[i] \in class THEN to ELSE s[i]]

StrLower(s) == [i \in 1..Len(s) |-> LowerChar(s[i])]

\* A mutant of remove_accents: the text is not lower-cased first.
remove_accents_as_cased(old) ==
  ReSub(AccentedU, "u",
    ReSub(AccentedO, "o",
      ReSub(AccentedI, "i",
        ReSub(AccentedE, "e",
          ReSub(AccentedA, "a", old)))))

\* remove_accents: old.lower(), then the five substitutions in turn
remove_accents(old) ==
  ReSub(AccentedU, "u",
    ReSub(AccentedO, "o",
      ReSub(AccentedI, "i",
        ReSub(AccentedE, "e",
          ReSub(AccentedA, "a", StrLower(old))))))

InitTexts ==
  /\ inp \in Texts
  /\ fn = ""
  /\ out = None

\* remove_accents(s)
RemoveAccents ==
  /\ fn = ""
  /\ fn' = "remove_accents"
  /\ out' = Str(remove_accents(inp))
  /\ inp' = inp
  /\ UNCHANGED <<importVars, ofxVars>>

\* remove_accents(remove_accents(s))
RemoveAccentsAgain ==
  /\ fn = "remove_accents"
  /\ fn' = "remove_accents twice"
  /\ out' = Str(remove_accents(out.s))
  /\ inp' = inp
  /\ UNCHANGED <<importVars, ofxVars>>

NextTexts ==
  \/ RemoveAccents
  \/ RemoveAccentsAgain

---------------------------------------------------------------------------
(* CSVReader.skip_until_row_contains *)

\* the largest number of rows of a table searched for a sentinel
MaxSentinelRows == 3

\* the label searched for
SentinelLabel == "Transactions"

\* value in r[0], on the cells of the tables searched here
CellContains(cell, value) ==
  value = SentinelLabel /\ cell \in {"Transactions", "All Transactions 2024"}

\* The rows of the tables: a preamble line, two lines whose first cell
\* contains the label, a line with the label in its second cell only, a
\* data line, and a line without cells.
SentinelRows ==
  {<<"Report">>, <<"Transactions">>, <<"All Transactions 2024", "x">>,
   <<"01/03/2024", "Transactions">>, <<"02/03/2024", "-3.50">>, <<>>}

SentinelTables == UNION {[1..k -> SentinelRows] : k \in 0..MaxSentinelRows}

\* table.rowslice(start, stop): the header and the data rows start..stop-1,
\* the first data row being row 0
PetlRowslice(t, start, stop) ==
  IF t = <<>> THEN <<>>
  ELSE <<t[1]>> \o SubSeq(t, start + 2, Min({stop + 1, Len(t)}))

\* A mutant of skip_until_row_contains: the first matching row wins.
skip_until_row_contains_first(t, value) ==
  IF \E n \in 1..Len(t) : t[n] = <<>> THEN Raised("IndexError")
  ELSE LET hits == {n \in 1..Len(t) : CellContains(t[n][1], value)}
       IN IF hits = {} THEN Raised("SystemExit")
          ELSE Ok(PetlRowslice(t, Min(hits) - 1, Len(t)))

\* CSVReader.skip_until_row_contains.  enumerate counts the header as row 0;
\* r[0] raises IndexError on a row without cells; start is the number of
\* the last row whose first cell contains the value, sys.exit(1) when there
\* is none.
skip_until_row_contains(t, value) ==
  IF \E n \in 1..Len(t) : t[n] = <<>> THEN Raised("IndexError")
  ELSE LET hits == {n \in 1..Len(t) : CellContains(t[n][1], value)}
       IN IF hits = {} THEN Raised("SystemExit")
          ELSE Ok(PetlRowslice(t, Max(hits) - 1, Len(t)))

InitSentinel ==
  /\ inp \in SentinelTables
  /\ fn = ""
  /\ out = None

\* reader.skip_until_row_contains(rdr, "Transactions")
SkipUntilRowContains ==
  /\ fn = ""
  /\ fn' = "skip_until_row_contains"
  /\ out' = skip_until_row_contains(inp, SentinelLabel)
  /\ inp' = inp
  /\ UNCHANGED <<importVars, ofxVars>>

NextSentinel == SkipUntilRowContains

---------------------------------------------------------------------------
(* The amount column of the Revolut and N26 importers *)

\* the largest amount of a row, in eighths of a unit
MaxEighths == 16

\* the largest fee of a row, in eighths of a unit
MaxFeeEighths == 8

\* The Amount and Fee cells drawn here are written with three decimals and
\* are multiples of 1/8 (0.125, -1.500, ...): binary floating point holds
\* each of them, and their differences, exactly.
EighthsCell(k) == Dec(k * 125, 3)

\* float(cell), as the number of eighths it holds
PyFloat(cell) == [eighths |-> cell.m \div 125]

\* a - b on floats
FloatSub(a, b) == [eighths |-> a.eighths - b.eighths]

\* round(n2 / 2) with ties to the even neighbour
RoundHalfEven(n2) ==
  IF n2 % 2 = 0 THEN n2 \div 2
  ELSE IF (n2 \div 2) % 2 = 0 THEN n2 \div 2 ELSE (n2 \div 2) + 1

\* f"{x:.2f}" and the Decimal convert_columns reads back from it: the value
\* rounded to hundredths, a tie going to the even hundredth
Format2f(x) == Dec(RoundHalfEven(x.eighths * 25), 2)

\* RevolutImporter.transformations, the amount field:
\* f"{float(x['Amount']) - float(x['Fee']):.2f}"
RevolutNetAmount(row) ==
  Format2f(FloatSub(PyFloat(row.Amount), PyFloat(row.Fee)))

\* N26Importer.transformations, the amount field:
\* f"{float(x['Amount (EUR)']):.2f}"
N26NetAmount(row) == Format2f(PyFloat(row.Amount))

InitNet ==
  /\ inp \in [Amount : {EighthsCell(k) : k \in (0 - MaxEighths)..MaxEighths},
              Fee : {EighthsCell(k) : k \in 0..MaxFeeEighths}]
  /\ fn = ""
  /\ out = None

\* the amount of a Revolut row after read_file
RevolutAmount ==
  /\ fn = ""
  /\ fn' = "revolut"
  /\ out' = RevolutNetAmount(inp)
  /\ inp' = inp
  /\ UNCHANGED <<importVars, ofxVars>>

\* the amount of an N26 row after read_file
N26Amount ==
  /\ fn = ""
  /\ fn' = "n26"
  /\ out' = N26NetAmount(inp)
  /\ inp' = inp
  /\ UNCHANGED <<importVars, ofxVars>>

NextNet ==
  \/ RevolutAmount
  \/ N26Amount

---------------------------------------------------------------------------
(* Reader.identify *)

\* FILE_EXTS of CSVReader and of OFXReader
FileExts(reader) == IF reader = "csv" THEN {"csv"} ELSE {"ofx", "qfx"}

\* str.lower() on the extensions used here
Lower(s) ==
  CASE s = ".CSV" -> ".csv"
    [] s = ".QFX" -> ".qfx"
    [] s = "CSV" -> "csv"
    [] OTHER -> s

\* The files offered to identify: Path(file).name is prefix, "2024" and
\* suffix; Path(file).suffix is suffix.
IdentifyFiles ==
  [prefix : {"Paypal-", "N26-"},
   suffix : {".csv", ".CSV", ".ofx", ".QFX", ".txt", ""}]

\* the reader's config: filename_pattern is optional
PatternConfigs == {[main_account |-> MainAccount],
                   [main_account |-> MainAccount,
                    filename_pattern |-> "^Paypal-"]}

\* Reader.__init__: config.get("filename_pattern", "^*")
filename_pattern(config) ==
  IF "filename_pattern" \in DOMAIN config THEN config.filename_pattern
  ELSE "^*"

\* re.match(pattern, name) as a truth value.  "^*" is not a regular
\* expression (nothing to repeat) and re.match raises re.error on it;
\* "^Paypal-" matches the names that start with "Paypal-".
re_match(pattern, f) ==
  IF pattern = "^*" THEN Raised("re.error")
  ELSE Ok(f.prefix = "Paypal-")

\* What try_parse does on a file: CSVReader.try_parse returns whether the
\* head of the file matches header_identifier; OFXReader.try_parse returns
\* False on a file ofxparse rejects, True when an account matches, and
\* raises AttributeError when none does.
TryParseOutcomes(reader) ==
  IF reader = "csv" THEN {Ok(TRUE), Ok(FALSE)}
  ELSE {Ok(TRUE), Ok(FALSE), Raised("AttributeError")}

InitIdentify ==
  /\ inp \in {i \in [reader : {"csv", "ofx"}, config : PatternConfigs,
                     file : IdentifyFiles,
                     parse : {Ok(TRUE), Ok(FALSE), Raised("AttributeError")}] :
                i.parse \in TryParseOutcomes(i.reader)}
  /\ fn = ""
  /\ out = None

\* Reader.identify after the extension test: the pattern, then try_parse
IdentifyByName(m, parse) ==
  IF IsRaised(m) THEN m
  ELSE IF ~m.ok THEN Ok(FALSE)
  ELSE IF IsRaised(parse) THEN parse
  ELSE Ok(parse.ok)

\* Reader.identify
identify(reader, config, f, parse) ==
  IF Lower(f.suffix) \notin {"." \o Lower(ext) : ext \in FileExts(reader)}
  THEN Ok(FALSE)
  ELSE IdentifyByName(re_match(filename_pattern(config), f), parse)

\* reader.identify(file)
Identify ==
  /\ fn = ""
  /\ fn' = "identify"
  /\ out' = identify(inp.reader, inp.config, inp.file, inp.parse)
  /\ inp' = inp
  /\ UNCHANGED <<importVars, ofxVars>>

\* reader.try_parse(file)
TryParseFile ==
  /\ fn = ""
  /\ fn' = "try_parse"
  /\ out' = inp.parse
  /\ inp' = inp
  /\ UNCHANGED <<importVars, ofxVars>>

NextIdentify ==
  \/ Identify
  \/ TryParseFile

---------------------------------------------------------------------------
(* The skip list: the type remap of convert_columns and get_transactions, *)
(* on tables with and without a type column                               *)

\* the type cells of the tables filtered here
RawTypes ==
  {"Website Payment", "General Authorization - Pending", "Mobile Payment"}

\* the values a skip_transaction_types list is made of here
SkipListValues ==
  {"General Authorization - Pending", "payment", "Website Payment", "NO_TYPE"}

\* the largest number of rows of a filtered table
MaxSkipRows == 3

\* A mutant of ConvertType: the type column is left as written.
ConvertType_as_written(hasType, types) ==
  [i \in 1..Len(types) |->
     IF hasType THEN [line |-> i, type |-> types[i]]
     ELSE [line |-> i]]

\* The rows rdr.namedtuples() gives after convert_columns:
\* if "type" in rdr.header(): rdr = rdr.convert("type", transaction_type_map).
\* A table without the column gives rows without the attribute.
ConvertType(hasType, types) ==
  [i \in 1..Len(types) |->
     IF hasType THEN [line |-> i, type |-> PaypalTypeMap(types[i])]
     ELSE [line |-> i]]

InitSkip ==
  /\ inp \in [hasType : BOOLEAN,
              types : UNION {[1..k -> RawTypes] : k \in 0..MaxSkipRows},
              skip : SUBSET SkipListValues]
  /\ fn = ""
  /\ out = None

\* list(reader.get_transactions()) on the table read
ListTransactions ==
  /\ fn = ""
  /\ fn' = "get_transactions"
  /\ out' = get_transactions(ConvertType(inp.hasType, inp.types), inp.skip)
  /\ inp' = inp
  /\ UNCHANGED <<importVars, ofxVars>>

\* the remapped rows themselves, before any filtering
ListRows ==
  /\ fn = ""
  /\ fn' = "convert_columns"
  /\ out' = ConvertType(inp.hasType, inp.types)
  /\ inp' = inp
  /\ UNCHANGED <<importVars, ofxVars>>

NextSkip ==
  \/ ListTransactions
  \/ ListRows

---------------------------------------------------------------------------
(* OFXReader *)

\* config["account_number"] of the OFX reader modelled
OfxAccountNumber == "1234"

\* self.config.get("balance_assertion_date_fudge", 2)
DefaultFudge == 2

\* the last day a date of an OFX file falls on
MaxDay == 3

\* the largest number of transactions of a statement
MaxTxns == 2

OfxDates == {Date(d) : d \in 1..MaxDay}

\* ofxparse statements: a date field the file does not give is None; the
\* balance attribute exists only when the file gives a ledger balance.
\* Nothing in ofxparse ties the transactions' dates to end_date.
StatementFields ==
  [end_date : {None} \cup OfxDates,
   transactions : UNION {[1..k -> OfxDates] : k \in 0..MaxTxns},
   available_balance_date : {None} \cup OfxDates,
   balance_date : {None, Date(MaxDay)},
   currency : {"eur"}]

WithBalance(s) ==
  [end_date |-> s.end_date, transactions |-> s.transactions,
   available_balance_date |-> s.available_balance_date,
   balance_date |-> s.balance_date, currency |-> s.currency,
   balance |-> Dec(100, 0)]

Statements == StatementFields \cup {WithBalance(s) : s \in StatementFields}

OfxAccounts ==
  [account_id : {OfxAccountNumber, "9999"}, statement : Statements]

\* the values of balance_assertion_date_type the configurations carry
DateTypes == {"smart", "ofx_date", "statement_end", "last_transaction", "today"}

\* the values of balance_assertion_date_fudge the configurations carry
FudgeDays == {0, 1}

OfxConfigs ==
  {[account_number |-> OfxAccountNumber]}
    \cup {[account_number |-> OfxAccountNumber,
           balance_assertion_date_type |-> ty] : ty \in DateTypes}
    \cup {[account_number |-> OfxAccountNumber,
           balance_assertion_date_fudge |-> f] : f \in FudgeDays}

\* A file is imported on or after the last day its dates can fall on.
InitOfx ==
  /\ ofx \in {<<acc>> : acc \in OfxAccounts}
  /\ ofx_account = None
  /\ ofxConfig \in OfxConfigs
  /\ today \in MaxDay..(MaxDay + 1)
  /\ ofxRet = NoCall

\* OFXReader.match_account_number
ofx_match_account_number(file_account, config_account) ==
  file_account = config_account

\* OFXReader.try_parse, the loop over self.ofx.accounts: every matching
\* account is assigned in turn, so the last one stays
MatchedAccount(accounts, config) ==
  LET hits == {i \in 1..Len(accounts) :
                 ofx_match_account_number(accounts[i].account_id,
                                          config.account_number)}
  IN IF hits = {} THEN None ELSE accounts[Max(hits)]

\* OFXReader.try_parse on a file ofxparse reads.  With no matching account
\* self.ofx_account stays None and self.ofx_account.statement raises.
TryParse ==
  /\ ofx_account' = MatchedAccount(ofx, ofxConfig)
  /\ ofxRet' = IF MatchedAccount(ofx, ofxConfig) = None
               THEN Called("try_parse", "AttributeError", <<>>)
               ELSE Called("try_parse", "", TRUE)
  /\ UNCHANGED <<ofx, ofxConfig, today, importVars, applyVars>>

\* OFXReader.get_ofx_end_date
get_ofx_end_date(statement, field) == statement[field]

\* OFXReader.get_max_transaction_date: max() of no transaction raises
\* ValueError, which gives None.  OFX transactions carry date.
ofx_get_max_transaction_date(statement) ==
  IF statement.transactions = <<>> THEN None
  ELSE Date(Max({statement.transactions[i].day :
                   i \in 1..Len(statement.transactions)}))

\* OFXReader._fudged_date
fudged_date(statement, field, fudge_days) ==
  IF get_ofx_end_date(statement, field) = None THEN None
  ELSE Date(get_ofx_end_date(statement, field).day - fudge_days)

\* A mutant of get_smart_date: the two fudged dates are left out.
get_smart_date_unfudged(statement, config) ==
  LET dates == <<get_ofx_end_date(statement, "end_date"),
                 ofx_get_max_transaction_date(statement)>>
  IN IF dates[1] = None /\ dates[2] = None THEN None
     ELSE Date(Max({dates[i].day : i \in {j \in 1..2 : dates[j] # None}}))

\* OFXReader.get_smart_date.  None when there is neither an end date nor a
\* transaction; otherwise the latest of the four dates, a missing one
\* counting as datetime.date.min, which is earlier than any date present.
get_smart_date(statement, config) ==
  LET fudge == IF "balance_assertion_date_fudge" \in DOMAIN config
               THEN config.balance_assertion_date_fudge ELSE DefaultFudge
      dates == <<get_ofx_end_date(statement, "end_date"),
                 ofx_get_max_transaction_date(statement),
                 fudged_date(statement, "available_balance_date", fudge),
                 fudged_date(statement, "balance_date", fudge)>>
  IN IF dates[1] = None /\ dates[2] = None THEN None
     ELSE Date(Max({dates[i].day : i \in {j \in 1..4 : dates[j] # None}}))

\* the keys of strategy_map
StrategyKeys == {"smart", "ofx_date", "last_transaction", "today"}

\* strategy_map[strategy]()
StrategyDate(strategy, account, config, td) ==
  CASE strategy = "smart" -> get_smart_date(account.statement, config)
    [] strategy = "ofx_date" -> get_ofx_end_date(account.statement, "end_date")
    [] strategy = "last_transaction" ->
         ofx_get_max_transaction_date(account.statement)
    [] strategy = "today" -> Date(td)

\* date + datetime.timedelta(days=1) if date else None
PlusOneDay(date) == IF date = None THEN None ELSE Date(date.day + 1)

\* self.config.get("balance_assertion_date_type", "smart")
ConfiguredStrategy(config) ==
  IF "balance_assertion_date_type" \in DOMAIN config
  THEN config.balance_assertion_date_type ELSE "smart"

\* OFXReader.get_balance_assertion_date.  A strategy that is not a key of
\* strategy_map raises KeyError; every strategy but today reads
\* self.ofx_account.statement, an AttributeError while no account is set.
ofx_get_balance_assertion_date(account, config, td) ==
  IF ConfiguredStrategy(config) \notin StrategyKeys THEN Raised("KeyError")
  ELSE IF ConfiguredStrategy(config) # "today" /\ account = None
  THEN Raised("AttributeError")
  ELSE Ok(PlusOneDay(
            StrategyDate(ConfiguredStrategy(config), account, config, td)))

\* OFXReader.get_balance_statement from date = ... on
BalanceOn(statement, date) ==
  IF IsRaised(date) THEN date
  ELSE IF date.ok = None THEN Ok(<<>>)
  ELSE Ok(<<[date |-> date.ok, amount |-> statement.balance]>>)

\* list(OFXReader.get_balance_statement())
ofx_get_balance_statement(account, config, td) ==
  IF account = None THEN Raised("AttributeError")
  ELSE IF "balance" \notin DOMAIN account.statement THEN Ok(<<>>)
  ELSE BalanceOn(account.statement,
                 ofx_get_balance_assertion_date(account, config, td))

\* What a call on the OFX reader leaves in ofxRet
OfxReturns(call, r) ==
  ofxRet' = IF IsRaised(r) THEN Called(call, r.raised, <<>>)
            ELSE Called(call, "", r.ok)

\* list(reader.get_transactions())
OfxGetTransactions ==
  /\ OfxReturns("get_transactions",
                IF ofx_account = None THEN Raised("AttributeError")
                ELSE Ok(ofx_account.statement.transactions))
  /\ UNCHANGED <<ofx, ofx_account, ofxConfig, today, importVars, applyVars>>

\* reader.get_balance_assertion_date()
OfxGetBalanceAssertionDate ==
  /\ OfxReturns("get_balance_assertion_date",
                ofx_get_balance_assertion_date(ofx_account, ofxConfig, today))
  /\ UNCHANGED <<ofx, ofx_account, ofxConfig, today, importVars, applyVars>>

\* list(reader.get_balance_statement())
OfxGetBalanceStatement ==
  /\ OfxReturns("get_balance_statement",
                ofx_get_balance_statement(ofx_account, ofxConfig, today))
  /\ UNCHANGED <<ofx, ofx_account, ofxConfig, today, importVars, applyVars>>

\* reader.get_smart_date()
OfxGetSmartDate ==
  /\ OfxReturns("get_smart_date",
                IF ofx_account = None THEN Raised("AttributeError")
                ELSE Ok(get_smart_date(ofx_account.statement, ofxConfig)))
  /\ UNCHANGED <<ofx, ofx_account, ofxConfig, today, importVars, applyVars>>

NextOfx ==
  \/ TryParse
  \/ OfxGetSmartDate
  \/ OfxGetTransactions
  \/ OfxGetBalanceAssertionDate
  \/ OfxGetBalanceStatement

---------------------------------------------------------------------------
(* One OFX reader used on several files *)

\* the largest number of accounts of a file
MaxAccounts == 2

\* a statement with one transaction, on the given day
StatementOn(d) ==
  [end_date |-> None, transactions |-> <<Date(d)>>,
   available_balance_date |-> None, balance_date |-> None,
   currency |-> "eur"]

\* The accounts of the files: two account numbers, the second ending with
\* the first, each with one of two statements
FileAccounts ==
  [account_id : {OfxAccountNumber, "55" \o OfxAccountNumber},
   statement : {StatementOn(1), StatementOn(2)}]

\* the files, as ofxparse reads them: their accounts in file order
OfxFiles == UNION {[1..k -> FileAccounts] : k \in 0..MaxAccounts}

\* the reader's config, with and without account_number
AccountConfigs == {[account_number |-> OfxAccountNumber],
                   [main_account |-> MainAccount],
                   [account_number |-> OfxAccountNumber,
                    filename_pattern |-> "^Paypal-"]}

\* the names of the files offered to the OFX reader's identify
OfxNames == [prefix : {"Paypal-", "N26-"}, suffix : {".ofx", ".QFX", ".csv"}]

\* No file has been parsed: the reader has no account yet.
InitOfxFiles ==
  /\ ofx = <<>>
  /\ ofx_account = None
  /\ ofxConfig \in AccountConfigs
  /\ today = 0
  /\ ofxRet = NoCall
  /\ file = <<>>
  /\ target_account = None
  /\ readerHasInit = FALSE
  /\ rdr = Unset
  /\ ret = NoCall
  /\ alive = TRUE

\* OFXReader.try_parse on the accounts ofxparse read: what is left in
\* self.ofx_account and what the call gives.  self.config["account_number"]
\* is evaluated for the first account of the loop and raises KeyError when
\* the key is absent; self.ofx_account.statement raises AttributeError when
\* no account was assigned.
try_parse(accounts, config) ==
  IF accounts # <<>> /\ "account_number" \notin DOMAIN config
  THEN [ofx_account |-> None, ret |-> Raised("KeyError")]
  ELSE IF accounts = <<>> \/ MatchedAccount(accounts, config) = None
  THEN [ofx_account |-> None, ret |-> Raised("AttributeError")]
  ELSE [ofx_account |-> MatchedAccount(accounts, config), ret |-> Ok(TRUE)]

\* reader.try_parse(f): self.ofx is the file read, whatever follows
TryParseOf(f) ==
  /\ file' = f
  /\ ofx' = f
  /\ ofx_account' = try_parse(f, ofxConfig).ofx_account
  /\ OfxReturns("try_parse", try_parse(f, ofxConfig).ret)
  /\ UNCHANGED <<ofxConfig, today, target_account, readerHasInit, rdr, ret,
                 alive, applyVars>>

\* reader.read_file(f): the parsed file is returned and nothing is stored
OfxReadFileOf(f) ==
  /\ file' = f
  /\ OfxReturns("read_file", Ok(f))
  /\ UNCHANGED <<ofx, ofx_account, ofxConfig, today, target_account,
                 readerHasInit, rdr, ret, alive, applyVars>>

\* A mutant of ReachesTryParse: the file is parsed whatever its name.
ReachesTryParse_always(reader, config, n) == TRUE

\* Reader.identify: try_parse is called when neither the extension test nor
\* the pattern test has returned False, and re.match has not raised
ReachesTryParse(reader, config, n) ==
  /\ Lower(n.suffix) \in {"." \o Lower(ext) : ext \in FileExts(reader)}
  /\ re_match(filename_pattern(config), n) = Ok(TRUE)

\* reader.identify(file) on the OFX reader, for a file of name n and
\* content f
OfxIdentifyOf(n, f) ==
  /\ file' = f
  /\ inp' = n
  /\ IF ReachesTryParse("ofx", ofxConfig, n)
     THEN /\ ofx' = f
          /\ ofx_account' = try_parse(f, ofxConfig).ofx_account
     ELSE UNCHANGED <<ofx, ofx_account>>
  /\ OfxReturns("identify",
                identify("ofx", ofxConfig, n, try_parse(f, ofxConfig).ret))
  /\ UNCHANGED <<ofxConfig, today, target_account, readerHasInit, rdr, ret,
                 alive, fn, out>>

\* the files with at most one account
OneAccountFiles == {f \in OfxFiles : Len(f) <= 1}

OfxIdentifyAny ==
  \E n \in OfxNames : \E f \in OneAccountFiles : OfxIdentifyOf(n, f)

TryParseOne == \E f \in OneAccountFiles : TryParseOf(f)

TryParseAny == \E f \in OfxFiles : TryParseOf(f)

OfxReadFileAny == \E f \in OfxFiles : OfxReadFileOf(f)

\* identify and try_parse called in turn on one reader
NextOfxIdentify ==
  \/ OfxIdentifyAny
  \/ TryParseOne

NextOfxFiles ==
  \/ TryParseAny
  \/ OfxReadFileAny
  \/ OfxGetTransactions

---------------------------------------------------------------------------
(* The specifications *)

InitOfxIdle ==
  /\ ofx = <<>>
  /\ ofx_account = None
  /\ ofxConfig = None
  /\ today = 0
  /\ ofxRet = NoCall

Init == InitImport /\ InitApplyIdle /\ InitOfxIdle

Next ==
  \/ ReadFile
  \/ GetTransactions
  \/ GetBalanceAssertionDate
  \/ GetBalanceStatement
  \/ Extract

Spec == Init /\ [][Next]_vars

InitA == InitAmount /\ InitImportIdle /\ InitOfxIdle

SpecAmount == InitA /\ [][NextAmount]_vars

InitT == InitTable /\ InitImportIdle /\ InitOfxIdle

SpecTable == InitT /\ [][NextTable]_vars

InitS == InitSkip /\ InitImportIdle /\ InitOfxIdle

SpecSkip == InitS /\ [][NextSkip]_vars

InitO == InitOfx /\ InitImportIdle /\ InitApplyIdle

SpecOfx == InitO /\ [][NextOfx]_vars

InitE == InitEntries /\ InitImportIdle /\ InitOfxIdle

SpecEntries == InitE /\ [][NextEntries]_vars

InitI == InitIdentify /\ InitImportIdle /\ InitOfxIdle

SpecIdentify == InitI /\ [][NextIdentify]_vars

InitF == InitOfxFiles /\ InitApplyIdle

InitC == InitSource /\ InitImportIdle /\ InitOfxIdle

InitN == InitNames /\ InitImportIdle /\ InitOfxIdle

InitR == InitAccounts /\ InitImportIdle /\ InitOfxIdle

InitX == InitTexts /\ InitImportIdle /\ InitOfxIdle

InitL == InitSentinel /\ InitImportIdle /\ InitOfxIdle

InitG == InitNet /\ InitImportIdle /\ InitOfxIdle

SpecNet == InitG /\ [][NextNet]_vars

SpecSentinel == InitL /\ [][NextSentinel]_vars

SpecTexts == InitX /\ [][NextTexts]_vars

SpecAccounts == InitR /\ [][NextAccounts]_vars

SpecNames == InitN /\ [][NextNames]_vars

SpecSource == InitC /\ [][NextSource]_vars

SpecOfxFiles == InitF /\ [][NextOfxFiles]_vars

SpecOfxIdentify == InitF /\ [][NextOfxIdentify]_vars

---------------------------------------------------------------------------
(* Properties of the import process (Spec) *)

\* C1: every transaction extract emits when a target account is configured
\* has exactly two postings; the main-account posting carries a fully
\* specified amount and the target-account posting carries no amount at
\* all, never a number such as 0.
C1_TargetPostingCarriesNoAmount ==
  (ret.call = "extract" /\ ret.exc = "" /\ target_account # None) =>
    \A i \in 1..Len(ret.value) :
      ret.value[i].kind = "Transaction" =>
        /\ Len(ret.value[i].postings) = 2
        /\ IsDec(ret.value[i].postings[1].units.number)
        /\ ret.value[i].postings[1].units.currency # None
        /\ ret.value[i].postings[2].units = None

\* C2: when an accepted row of the file has an amount cell that is not a
\* number or a date cell that is not a date in the configured format,
\* extract fails for the file and returns no entry.
C2_FailedConversionFailsTheFile ==
  (ret.call = "extract" /\ readerHasInit) =>
    LET located == extract_table_with_header(file, PaypalLabels)
        lines == IF IsRaised(located) THEN <<>> ELSE Tail(located.ok)
        accepted(l) ==
          PaypalTypeMap(Field(PaypalLabels, l, "Description"))
            \notin PaypalSkipTypes
        isNumber(c) ==
          /\ \A k \in 1..Len(c) : c[k] \in DigitChars \cup {".", ",", "-"}
          /\ \E k \in 1..Len(c) : c[k] \in DigitChars
        bad(l) ==
          \/ ~isNumber(CellChars(Field(PaypalLabels, l, "Net")))
          \/ IsRaised(strptime(Field(PaypalLabels, l, "Date")))
    IN (\E i \in 1..Len(lines) :
          Len(lines[i]) > 0 /\ accepted(lines[i]) /\ bad(lines[i]))
         => (ret.exc # "" /\ ret.value = <<>>)

\* C7: when no line of the file holds every expected column label,
\* read_file and extract fail with an error and give no row and no entry,
\* and the caller is still running afterwards, free to go on with the next
\* file.
C7_MissingHeaderLeavesTheCallerRunning ==
  (/\ ret.call \in {"read_file", "extract"}
   /\ ret.call = "extract" => readerHasInit
   /\ \A n \in 1..Len(file) : ~RowHasLabels(file[n], PaypalLabels))
    => /\ ret.exc # ""
       /\ ret.value = <<>>
       /\ rdr = Unset
       /\ alive

\* C8: get_balance_assertion_date returns the latest date among the rows
\* whose type is not in the skip list, plus one day, and None when there is
\* no such row.
C8_LatestAcceptedDatePlusOneDay ==
  (ret.call = "get_balance_assertion_date" /\ rdr # Unset) =>
    LET accepted == {i \in 1..Len(rdr.rows) :
                       rdr.rows[i].type \notin PaypalSkipTypes}
        days == {rdr.rows[i].date.day :
                   i \in {j \in accepted : rdr.rows[j].date # None}}
    IN IF accepted = {} THEN ret.value = None
       ELSE days # {} => ret.value = Date(Max(days) + 1)

---------------------------------------------------------------------------
(* Properties of the amount conversions (SpecAmount) *)

\* C3: an amount written with a comma as the decimal separator, with or
\* without "." thousands separators, reaches the typed row as the exact
\* value of its dot-decimal spelling, through the Paypal transformation
\* followed by convert_columns and through the legacy CaixaBank handling.
C3_CommaDecimalFidelity ==
  fn \in {"paypal", "caixabank_legacy"} =>
    IsDec(out) /\ DecEq(out, ExactValue(inp))

---------------------------------------------------------------------------
(* Properties of the table location (SpecTable) *)

\* C4: skip_until_main_table takes as header the last line among those
\* that hold every expected label, in any order and among any other cells,
\* and returns the file from that line on.
C4_LastMatchingLineIsTheHeader ==
  fn = "skip_until_main_table" =>
    LET cells(n) == {inp[n][i] : i \in 1..Len(inp[n])}
        labels == {LocLabels[k] : k \in 1..Len(LocLabels)}
        matching == {n \in 1..Len(inp) : labels \subseteq cells(n)}
    IN matching # {} =>
         out = Ok(SubSeq(inp, Max(matching), Len(inp)))

\* C4, its case: two lines match, the later one with its labels reordered
\* around an extra cell, and the table starts at that later line.
C4_TwoMatchingLines ==
  /\ fn = "skip_until_main_table"
  /\ inp = << <<"Date", "Net">>, <<"a", "b">>,
              <<"Net", "x", "Date">>, <<"c", "d">> >>
  /\ out = Ok(<< <<"Net", "x", "Date">>, <<"c", "d">> >>)

\* C5: extract_table_with_header returns the header and exactly the rows
\* between it and the first later row that has no cell or only empty
\* cells; with no such row it returns every row to the end of the file.
C5_RowsUpToTheFirstBlankRow ==
  fn = "extract_table_with_header" =>
    LET matching == {n \in 1..Len(inp) : RowHasLabels(inp[n], LocLabels)}
        header == Max(matching)
        empty(r) == \A i \in 1..Len(r) : r[i] = ""
        blanks == {n \in (header + 1)..Len(inp) : empty(inp[n])}
        last == IF blanks = {} THEN Len(inp) ELSE Min(blanks) - 1
    IN matching # {} => out = Ok(SubSeq(inp, header, last))

\* C5, its case: a data row, a row of empty cells, then a trailing row;
\* only the data row is returned under the header.
C5_BlankRowThenTrailer ==
  /\ fn = "extract_table_with_header"
  /\ inp = << <<"Date", "Net">>, <<"a", "b">>, <<"", "">>, <<"c", "d">> >>
  /\ out = Ok(<< <<"Date", "Net">>, <<"a", "b">> >>)

---------------------------------------------------------------------------
(* Properties of the skip list (SpecSkip) *)

\* C6, as the code has it: get_transactions omits a row exactly when its
\* type after the remap is in the skip list; a type that is no key of the
\* map stays as written; a row of a table with no type column counts as of
\* type "NO_TYPE", and is omitted exactly when that word is in the list.
\* The rows emitted keep their order.
C6_SkipListOnRemappedType ==
  fn = "get_transactions" =>
    LET keys == {"Website Payment", "PreApproved Payment Bill User Payment",
                 "Express Checkout Payment"}
        normalized(i) ==
          IF ~inp.hasType THEN "NO_TYPE"
          ELSE IF inp.types[i] \in keys THEN "payment" ELSE inp.types[i]
        kept == {i \in 1..Len(inp.types) : normalized(i) \notin inp.skip}
    IN /\ Len(out) = Cardinality(kept)
       /\ {out[k].line : k \in 1..Len(out)} = kept
       /\ \A k \in 1..(Len(out) - 1) : out[k].line < out[k + 1].line
       /\ inp.hasType =>
            \A k \in 1..Len(out) : out[k].type = normalized(out[k].line)

\* C6, its case: a pending authorization is omitted, an unmapped type goes
\* through as written, and a mapped type is matched after the remap, not
\* as written.
C6_PendingOmittedOthersEmitted ==
  /\ fn = "get_transactions"
  /\ inp.hasType
  /\ inp.types = <<"General Authorization - Pending", "Mobile Payment",
                   "Website Payment">>
  /\ inp.skip = {"General Authorization - Pending", "Website Payment"}
  /\ out = <<[line |-> 2, type |-> "Mobile Payment"],
             [line |-> 3, type |-> "payment"]>>

\* C6 as stated: ... and a row with no type column is never skipped.
C6_RowWithoutTypeNeverSkipped ==
  fn = "get_transactions" =>
    LET keys == {"Website Payment", "PreApproved Payment Bill User Payment",
                 "Express Checkout Payment"}
        normalized(i) ==
          IF inp.types[i] \in keys THEN "payment" ELSE inp.types[i]
        kept == {i \in 1..Len(inp.types) :
                   inp.hasType => normalized(i) \notin inp.skip}
    IN /\ Len(out) = Cardinality(kept)
       /\ {out[k].line : k \in 1..Len(out)} = kept

\* C22, as amended: the skip list is matched against the type after the
\* remap.  A row whose type as written is in the list and whose remapped
\* type is not is emitted; a row whose remapped type is in the list is
\* omitted, whether or not its type as written is.
C22_SkipListMatchedAfterTheRemap ==
  (fn = "get_transactions" /\ inp.hasType) =>
    \A i \in 1..Len(inp.types) :
      (\E k \in 1..Len(out) : out[k].line = i)
        <=> PaypalTypeMap(inp.types[i]) \notin inp.skip

\* C22, witness: "Website Payment" is in the skip list, the map turns it
\* into "payment", and the row is emitted.
C22_RawTypeListedRowEmitted ==
  /\ fn = "get_transactions"
  /\ inp.hasType
  /\ inp.types = <<"Website Payment">>
  /\ inp.skip = {"Website Payment"}
  /\ out = <<[line |-> 1, type |-> "payment"]>>

\* C22, as stated: a row whose type as written is in the skip list is
\* excluded, even when the map gives it another value.
C22_SkipListMatchedBeforeTheRemap ==
  (fn = "get_transactions" /\ inp.hasType) =>
    \A i \in 1..Len(inp.types) :
      inp.types[i] \in inp.skip
        => ~\E k \in 1..Len(out) : out[k].line = i

---------------------------------------------------------------------------
(* Properties of the OFX reader (SpecOfx) *)

\* C9: whatever balance_assertion_date_type is configured, the date of a
\* balance assertion the reader produces is strictly later than the date
\* of every transaction it yields for the file.
C9_BalanceDateAfterEveryTransaction ==
  (ofx_account # None /\ ofxRet.exc = "") =>
    LET txns == ofx_account.statement.transactions
    IN /\ (ofxRet.call = "get_balance_assertion_date"
             /\ ofxRet.value # None)
            => \A i \in 1..Len(txns) : ofxRet.value.day > txns[i].day
       /\ ofxRet.call = "get_balance_statement"
            => \A k \in 1..Len(ofxRet.value) : \A i \in 1..Len(txns) :
                 ofxRet.value[k].date.day > txns[i].day

\* C10: get_balance_assertion_date accepts smart, statement_end,
\* last_transaction and today, takes smart when the key is absent, and
\* returns the date of the strategy plus one day, or None when the
\* strategy has no date.
C10_DocumentedStrategiesAccepted ==
  (/\ ofxRet.call = "get_balance_assertion_date"
   /\ ofx_account # None
   /\ ConfiguredStrategy(ofxConfig)
        \in {"smart", "statement_end", "last_transaction", "today"})
    => /\ ofxRet.exc = ""
       /\ ofxRet.value =
            PlusOneDay(
              CASE ConfiguredStrategy(ofxConfig) = "smart" ->
                     get_smart_date(ofx_account.statement, ofxConfig)
                [] ConfiguredStrategy(ofxConfig) = "statement_end" ->
                     ofx_account.statement.end_date
                [] ConfiguredStrategy(ofxConfig) = "last_transaction" ->
                     ofx_get_max_transaction_date(ofx_account.statement)
                [] ConfiguredStrategy(ofxConfig) = "today" -> Date(today))

\* C11, as the code has it: get_smart_date is None exactly when the
\* statement has neither an end date nor a transaction, whatever balance
\* dates it has; otherwise it is the latest of the end date, the latest
\* transaction date, and the available-balance and ledger-balance dates
\* each moved back by balance_assertion_date_fudge days (2 by default),
\* the absent ones left out.
C11_SmartDateIsTheLatestCandidate ==
  (ofxRet.call = "get_smart_date" /\ ofxRet.exc = "") =>
    LET s == ofx_account.statement
        fudge == IF "balance_assertion_date_fudge" \in DOMAIN ofxConfig
                 THEN ofxConfig.balance_assertion_date_fudge ELSE 2
        candidates ==
          {s.end_date.day : x \in {1} \ {y \in {1} : s.end_date = None}}
            \cup {s.transactions[i].day : i \in 1..Len(s.transactions)}
            \cup {s.available_balance_date.day - fudge :
                    x \in {1} \ {y \in {1} : s.available_balance_date = None}}
            \cup {s.balance_date.day - fudge :
                    x \in {1} \ {y \in {1} : s.balance_date = None}}
    IN IF s.end_date = None /\ s.transactions = <<>>
       THEN ofxRet.value = None
       ELSE ofxRet.value = Date(Max(candidates))

\* C11, its case: with a fudge of 0 days the available-balance date of day
\* 3 is later than the end date and the only transaction, and is the date
\* returned.
C11_FudgedDateIsTheLatest ==
  /\ ofxRet.call = "get_smart_date"
  /\ ofxRet.value = Date(3)
  /\ ofx_account # None
  /\ ofx_account.statement.end_date = Date(1)
  /\ ofx_account.statement.transactions = <<Date(2)>>
  /\ ofx_account.statement.available_balance_date = Date(3)
  /\ ofx_account.statement.balance_date = None
  /\ "balance_assertion_date_fudge" \in DOMAIN ofxConfig
  /\ ofxConfig.balance_assertion_date_fudge = 0

\* C11 as stated: ... it is None only when none of the four dates is
\* available.
C11_NoneOnlyWhenNoDateAtAll ==
  (ofxRet.call = "get_smart_date" /\ ofxRet.exc = "") =>
    LET s == ofx_account.statement
    IN ofxRet.value = None =>
         /\ s.end_date = None
         /\ s.transactions = <<>>
         /\ s.available_balance_date = None
         /\ s.balance_date = None

---------------------------------------------------------------------------
(* Properties of the entries extract builds (SpecEntries) *)

\* C12: the first posting of every transaction extract emits is on the
\* main account, its number is the amount of the row it was built from and
\* its currency is the row's currency, or the reader's configured currency
\* when the row has no currency field.
C12_MainPostingCarriesTheRowsAmount ==
  (fn = "extract" /\ ~IsRaised(out)) =>
    \A i \in 1..Len(inp.rows) :
      /\ out.ok[i].kind = "Transaction"
      /\ out.ok[i].postings[1].account = inp.config.main_account
      /\ out.ok[i].postings[1].units.number = inp.rows[i].amount
      /\ out.ok[i].postings[1].units.currency =
           Text(IF "currency" \in DOMAIN inp.rows[i]
                THEN inp.rows[i].currency ELSE "CURRENCY_NOT_CONFIGURED")

\* C13: the main posting of a transaction built from a row with a
\* foreign_amount and foreign_currency carries that pair as its cost or as
\* its price; built from a row without them it has neither cost nor price.
C13_ForeignPairIsCostOrPrice ==
  (fn = "extract" /\ ~IsRaised(out)) =>
    \A i \in 1..Len(inp.rows) :
      IF "foreign_amount" \in DOMAIN inp.rows[i]
      THEN \/ out.ok[i].postings[1].cost =
                Amount(inp.rows[i].foreign_amount,
                       Text(inp.rows[i].foreign_currency))
           \/ out.ok[i].postings[1].price =
                Amount(inp.rows[i].foreign_amount,
                       Text(inp.rows[i].foreign_currency))
      ELSE /\ out.ok[i].postings[1].cost = None
           /\ out.ok[i].postings[1].price = None

\* C14: extract returns the transactions of the rows, in order, followed
\* by one balance assertion on the main account for each balance
\* statement, in order; no balance assertion comes before a transaction.
C14_BalancesAfterAllTransactions ==
  (fn = "extract" /\ ~IsRaised(out)) =>
    LET n == Len(inp.rows)
        b == Len(inp.bals)
    IN /\ Len(out.ok) = n + b
       /\ \A i \in 1..n : out.ok[i].kind = "Transaction"
       /\ \A k \in 1..b :
            /\ out.ok[n + k].kind = "Balance"
            /\ out.ok[n + k].account = inp.config.main_account
            /\ out.ok[n + k].date = inp.bals[k].date
            /\ out.ok[n + k].amount.number = inp.bals[k].amount

\* C14, its case: two rows and two balance statements give two
\* transactions and then two balance assertions.
C14_TwoRowsTwoStatements ==
  /\ fn = "extract"
  /\ Len(inp.rows) = 2
  /\ Len(inp.bals) = 2
  /\ ~IsRaised(out)
  /\ Len(out.ok) = 4
  /\ out.ok[2].kind = "Transaction"
  /\ out.ok[3].kind = "Balance"

\* C15: every entry extract returns, transaction or balance assertion,
\* has the metadata filing_account equal to config filing_account, or to
\* main_account when none is configured; the key is absent exactly when
\* emit_filing_account_metadata is configured as false.
C15_FilingAccountOnEveryEntry ==
  (fn \in {"extract", "extract_balance"} /\ ~IsRaised(out)) =>
    \A i \in 1..Len(out.ok) :
      IF "emit_filing_account_metadata" \in DOMAIN inp.config
           /\ inp.config.emit_filing_account_metadata = FALSE
      THEN "filing_account" \notin DOMAIN out.ok[i].meta
      ELSE /\ "filing_account" \in DOMAIN out.ok[i].meta
           /\ out.ok[i].meta.filing_account =
                (IF "filing_account" \in DOMAIN inp.config
                 THEN inp.config.filing_account
                 ELSE inp.config.main_account)

\* C15, its case: a transaction and a balance assertion filed under the
\* configured filing_account, which is not the main account.
C15_FiledUnderFilingAccount ==
  /\ fn = "extract"
  /\ ~IsRaised(out)
  /\ Len(inp.rows) = 1
  /\ Len(inp.bals) = 1
  /\ inp.config = [main_account |-> MainAccount,
                   filing_account |-> "Assets:Filing"]
  /\ out.ok[1].meta.filing_account = "Assets:Filing"
  /\ out.ok[2].meta.filing_account = "Assets:Filing"

---------------------------------------------------------------------------
(* Properties of Reader.identify (SpecIdentify) *)

\* C16: identify returns true exactly when the file's extension, compared
\* without regard to case, is one of FILE_EXTS, its name matches
\* filename_pattern (any name when no pattern is configured) and try_parse
\* succeeds; when one of the three fails it returns false.
C16_IdentifyIsTheConjunction ==
  fn = "identify" =>
    LET exts == IF inp.reader = "csv" THEN {".csv", ".CSV"}
                ELSE {".ofx", ".OFX", ".qfx", ".QFX"}
        named == ("filename_pattern" \in DOMAIN inp.config)
                   => inp.file.prefix = "Paypal-"
    IN out = Ok(/\ inp.file.suffix \in exts
                /\ named
                /\ inp.parse = Ok(TRUE))

---------------------------------------------------------------------------
(* Properties of one OFX reader used on several files (SpecOfxFiles) *)

\* C17: when several accounts of the file match the configured account
\* number, try_parse selects the first of them in file order.
C17_FirstMatchingAccountSelected ==
  (ofxRet.call = "try_parse" /\ ofxRet.exc = "") =>
    LET hits == {i \in 1..Len(file) :
                   file[i].account_id = ofxConfig.account_number}
    IN hits # {} /\ ofx_account = file[Min(hits)]

\* C18: when no account of the file matches the configured account number,
\* or no account number is configured, try_parse returns false and raises
\* nothing.
C18_NoMatchIsNotRecognized ==
  (/\ ofxRet.call = "try_parse"
   /\ \/ "account_number" \notin DOMAIN ofxConfig
      \/ \A i \in 1..Len(file) :
           file[i].account_id # ofxConfig.account_number)
    => ofxRet = Called("try_parse", "", FALSE)

\* C20: the transactions the reader yields after read_file(f) are those of
\* an account of f: nothing of a file handled by an earlier call is left.
C20_TransactionsComeFromTheFileRead ==
  (ofxRet.call = "get_transactions" /\ ofxRet.exc = "") =>
    \E i \in 1..Len(file) :
      ofxRet.value = file[i].statement.transactions

\* C29: a call of identify that rejects the file for its extension or for
\* its name returns False and leaves the account selected and the file
\* parsed as they were: try_parse has not run.
C29_RejectedByNameLeavesTheReaderAlone ==
  [][(/\ ofxRet'.call = "identify"
      /\ \/ Lower(inp'.suffix) \notin {".ofx", ".qfx"}
         \/ ("filename_pattern" \in DOMAIN ofxConfig
               /\ inp'.prefix # "Paypal-"))
       => /\ ofxRet' = Called("identify", "", FALSE)
          /\ ofx' = ofx
          /\ ofx_account' = ofx_account]_vars

\* C29, witness: a file rejected for its name, with the account of an
\* earlier file still selected.
C29_RejectedWithAnAccountSelected ==
  /\ ofxRet = Called("identify", "", FALSE)
  /\ inp.suffix = ".ofx" /\ inp.prefix = "N26-"
  /\ ofx_account # None
  /\ file # ofx
  /\ \E i \in 1..Len(file) : file[i].account_id = OfxAccountNumber

---------------------------------------------------------------------------
(* The end-to-end scenario (SpecSource) *)

\* C19: the file with the data line 01/03/2024,Coffee Shop,-3,50,EUR, a
\* blank line and junk yields exactly one transaction, dated 2024-03-01,
\* with payee "Coffee Shop" and a main-account posting of -3.50 EUR.
C19_OneTransactionOfMinusThreeFifty ==
  (/\ fn = "extract"
   /\ inp.date = "01/03/2024" /\ inp.payee = "Coffee Shop"
   /\ inp.amount = <<"-3", ",", "50">> /\ inp.currency = "EUR"
   /\ inp.trailer # <<>>)
    => /\ ~IsRaised(out)
       /\ Len(out.ok) = 1
       /\ out.ok[1].kind = "Transaction"
       /\ out.ok[1].date = Date(1)
       /\ out.ok[1].payee = "Coffee Shop"
       /\ out.ok[1].postings[1].account = MainAccount
       /\ DecEq(out.ok[1].postings[1].units.number, Dec(-350, 2))
       /\ out.ok[1].postings[1].units.currency = Text("EUR")

---------------------------------------------------------------------------
(* Payee and narration (SpecNames) *)

\* C21, as amended: the entry's payee is what the narration accessor gives
\* and its narration what the payee accessor gives; with the default
\* accessors both are the row's payee.
C21_NamesComeFromTheSwitchedAccessors ==
  fn = "extract" =>
    /\ out.payee = Accessed(inp.get_narration, inp.row)
    /\ out.narration = Accessed(inp.get_payee, inp.row)
    /\ (inp.get_payee = DefaultAccessor /\ inp.get_narration = DefaultAccessor)
         => (out.payee = inp.row.payee /\ out.narration = inp.row.payee)

\* C21, witness: an entry built with two different accessors on a row
\* whose payee and memo differ.
C21_OverriddenAccessors ==
  /\ fn = "extract"
  /\ inp.get_payee = "payee" /\ inp.get_narration = "memo"
  /\ inp.row.payee # inp.row.memo
  /\ out.payee = inp.row.memo

\* C21, as stated: the entry's payee comes from the payee accessor and its
\* narration from the narration accessor.
C21_NamesComeFromTheirOwnAccessors ==
  fn = "extract" =>
    /\ out.payee = Accessed(inp.get_payee, inp.row)
    /\ out.narration = Accessed(inp.get_narration, inp.row)

---------------------------------------------------------------------------
(* Account names (SpecAccounts) *)

\* C23: remove_empty_subaccounts returns the non-empty segments of the
\* account in their order, joined by single colons: no colon at either end
\* and no two colons in a row; applied twice it gives what it gives once.
C23_NonEmptySegmentsInOrder ==
  /\ fn = "remove_empty_subaccounts" =>
       /\ out.s = StrJoin(NonEmpty(StrSplit(inp, ":", <<>>, <<>>)), ":")
       /\ SelectSeq(out.s, LAMBDA c : c # ":")
            = SelectSeq(inp, LAMBDA c : c # ":")
       /\ out.s # <<>> => (out.s[1] # ":" /\ out.s[Len(out.s)] # ":")
       /\ \A i \in 1..(Len(out.s) - 1) : ~(out.s[i] = ":" /\ out.s[i + 1] = ":")
       /\ Cardinality({i \in 1..Len(out.s) : out.s[i] = ":"}) + 1
            = Max({1, Len(NonEmpty(StrSplit(inp, ":", <<>>, <<>>)))})
  /\ fn = "remove_empty_subaccounts twice" =>
       out.s = remove_empty_subaccounts(inp)

\* C23, witness: an account with an empty segment in the middle, a:b from
\* a::b, and the second application leaving it as it is.
C23_EmptySegmentCollapsed ==
  /\ fn = "remove_empty_subaccounts twice"
  /\ inp = <<"a", ":", ":", "b">>
  /\ out.s = <<"a", ":", "b">>

---------------------------------------------------------------------------
(* Accents (SpecTexts) *)

\* C24: remove_accents gives, character by character, the base vowel for an
\* accented vowel of its classes, upper or lower case, and the lower-case
\* character for any other; applied twice it gives what it gives once.
C24_LowerCaseWithoutAccents ==
  /\ fn = "remove_accents" =>
       /\ Len(out.s) = Len(inp)
       /\ \A i \in 1..Len(inp) :
            out.s[i] =
              CASE inp[i] \in {"A_grave", "a_ring"} -> "a"
                [] inp[i] = "E_acute" -> "e"
                [] inp[i] = "i_circ" -> "i"
                [] inp[i] = "O_tilde" -> "o"
                [] inp[i] = "u_uml" -> "u"
                [] inp[i] = "A" -> "a"
                [] inp[i] = "N_tilde" -> "n_tilde"
                [] OTHER -> inp[i]
  /\ fn = "remove_accents twice" => out.s = remove_accents(inp)

\* C24, witness: a text with an upper-case accented vowel and a letter
\* outside the classes, after the second application.
C24_UpperCaseAccentedVowel ==
  /\ fn = "remove_accents twice"
  /\ inp = <<"A_grave", "N_tilde", "z">>
  /\ out.s = <<"a", "n_tilde", "z">>

---------------------------------------------------------------------------
(* The sentinel row (SpecSentinel) *)

---------------------------------------------------------------------------
(* Net amounts (SpecNet) *)

\* C26: the amount of a Revolut row is its Amount minus its Fee, and the
\* amount of an N26 row its amount column, exactly.
C26_NetAmountIsExact ==
  /\ fn = "revolut" => DecEq(out, Dec(inp.Amount.m - inp.Fee.m, 3))
  /\ fn = "n26" => DecEq(out, inp.Amount)

---------------------------------------------------------------------------
(* Entries and their numbering (Spec) *)

\* C27: on a file whose table is found and whose dates all convert, extract
\* returns one transaction for each row that is not skipped, in the order
\* of the rows, and the line indices of the entries returned, balance
\* assertions included, are 0, 1, 2, ... in their order.
C27_OneNumberedTransactionPerAcceptedRow ==
  (/\ ret.call = "extract"
   /\ ~IsRaised(read_file(file))
   /\ \A i \in 1..Len(read_file(file).ok) : read_file(file).ok[i].date # None)
    => /\ ret.exc = ""
       /\ LET accepted == get_transactions(read_file(file).ok, PaypalSkipTypes)
              isTxn(e) == e.kind = "Transaction"
              txns == SelectSeq(ret.value, isTxn)
          IN /\ Len(txns) = Len(accepted)
             /\ \A k \in 1..Len(txns) :
                  /\ txns[k].date = accepted[k].date
                  /\ txns[k].payee = accepted[k].payee
                  /\ ret.value[k] = txns[k]
             /\ \A k \in 1..Len(ret.value) : ret.value[k].meta.lineno = k - 1

\* C28: on a file whose table is found and whose cells all convert,
\* extract runs to completion: no exception leaves it.
C28_ExtractRunsToCompletion ==
  (/\ ret.call = "extract"
   /\ ~IsRaised(read_file(file))
   /\ \A i \in 1..Len(read_file(file).ok) :
        /\ read_file(file).ok[i].date # None
        /\ read_file(file).ok[i].amount # None
        /\ read_file(file).ok[i].balance # None)
    => ret.exc = ""

\* C30: the balance statement of the Paypal importer carries the running
\* balance and the currency of an accepted row with the latest date.
C30_BalanceOfTheLatestAcceptedRow ==
  (ret.call = "get_balance_statement" /\ ret.value # <<>>) =>
    LET accepted == get_transactions(rdr.rows, PaypalSkipTypes)
    IN \E i \in 1..Len(accepted) :
         /\ \A j \in 1..Len(accepted) : accepted[j].date.day <= accepted[i].date.day
         /\ ret.value[1].amount = accepted[i].balance
         /\ ret.value[1].currency = accepted[i].currency

=============================================================================
